---------------------------- MODULE Spec2Model ----------------------------
(***************************************************************************)
(* Model of the building-estimator engine (src/calculations.py, driven by  *)
(* src/app.py): calculate_materials, generate_plan_variants,               *)
(* calculate_cost and generate_boq.                                        *)
(*                                                                         *)
(* Numbers.  The program computes with Python floats.  The model computes  *)
(* with exact non-negative rationals n/d whose numerator and denominator   *)
(* are arbitrary-precision naturals (little-endian sequences of decimal    *)
(* digits, because TLC's integers are 32 bits wide).  Every literal of the *)
(* source (0.3048, 1.08, 0.90, ...) is the decimal it is written as, and   *)
(* round(x, k) is round-half-to-even on the exact value, as Python's       *)
(* round is on the value of the float.  The binary representation error of *)
(* IEEE-754 doubles (about 1 part in 10^16) is not modelled.               *)
(***************************************************************************)
EXTENDS Integers, Sequences, FiniteSets, TLC

VARIABLES
    heap,            \* the dicts allocated so far, by address
    form,            \* the inputs dict estimate() collects from the request
    MATERIAL_RATES,  \* address of the process-wide rate table, 0 for None
    base_materials,  \* address of the base snapshot, 0 before it exists
    materials,       \* per plan, address of the adjusted snapshot, 0 before
    costs,           \* per plan, the cost result, NoResult before
    boq,             \* per plan, the BOQ rows, <<>> before
    layout_svg,      \* per layout, the floor plan drawn, NoResult before
    adjusted,        \* per plan, address of the dict get_rates_by_plan
                     \* returned, 0 before
    pc               \* where estimate() is: "validate" (line 54), "compute"
                     \* (line 93), "rejected" (a 400 page), "failed" (line 132)

vars ==
    <<heap, form, MATERIAL_RATES, base_materials, materials, costs, boq,
      layout_svg, adjusted, pc>>

---------------------------------------------------------------------------
(* Arbitrary-precision naturals: little-endian sequences of limbs in base  *)
(* 10^4 without leading zero limbs; <<>> is 0, <<1424, 3>> is 31424.       *)
(* Carries are computed by look-ahead, so that the operators do not        *)
(* recurse along the number.                                               *)

Base == 10 ^ 4

Limb(a, i) == IF i \in 1..Len(a) THEN a[i] ELSE 0

Max(x, y) == IF x >= y THEN x ELSE y

Min(x, y) == IF x <= y THEN x ELSE y

\* the largest member of a non-empty set of integers
SetMax(S) == CHOOSE x \in S : \A y \in S : y <= x

\* f overridden by g
Merge(f, g) ==
    [k \in DOMAIN f \cup DOMAIN g |-> IF k \in DOMAIN g THEN g[k] ELSE f[k]]

\* a without its leading zero limbs
BNorm(a) == SubSeq(a, 1, SetMax({0} \cup {i \in 1..Len(a) : a[i] # 0}))

Big(n) == BNorm(<<n % Base, (n \div Base) % Base, n \div (Base * Base)>>)

\* a carry reaches limb i of the limb sums s
Carry(s, i) ==
    \E j \in 1..(i - 1) : s[j] >= Base /\ \A k \in (j + 1)..(i - 1) : s[k] = Base - 1

\* the number whose limb sums are s, every s[i] <= 2 * (Base - 1)
BCarry(s) ==
    BNorm([i \in 1..(Len(s) + 1) |-> (Limb(s, i) + IF Carry(s, i) THEN 1 ELSE 0) % Base])

BAdd(a, b) == BCarry([i \in 1..Max(Len(a), Len(b)) |-> Limb(a, i) + Limb(b, i)])

Borrow(a, b, i) ==
    \E j \in 1..(i - 1) : a[j] < Limb(b, j) /\ \A k \in (j + 1)..(i - 1) : a[k] = Limb(b, k)

\* a - b for a >= b
BSub(a, b) ==
    BNorm([i \in 1..Len(a) |->
              (a[i] - Limb(b, i) - (IF Borrow(a, b, i) THEN 1 ELSE 0) + Base) % Base])

\* a * Base^m
BShift(a, m) == IF a = <<>> THEN a ELSE [i \in 1..m |-> 0] \o a

\* the number whose limb products are p, every p[i] < Base * Base
BSplit(p) ==
    BAdd(BNorm([i \in 1..Len(p) |-> p[i] % Base]),
         BShift(BNorm([i \in 1..Len(p) |-> p[i] \div Base]), 1))

\* a * k for 0 <= k < Base
BMulSmall(a, k) == BSplit([i \in 1..Len(a) |-> a[i] * k])

\* a * (b[lo] + b[lo+1] * Base + ... ) * Base^(lo-1), by halving the range
RECURSIVE BMulRange(_, _, _, _)
BMulRange(a, b, lo, hi) ==
    IF lo = hi THEN BShift(BMulSmall(a, b[lo]), lo - 1)
    ELSE BAdd(BMulRange(a, b, lo, (lo + hi) \div 2),
              BMulRange(a, b, ((lo + hi) \div 2) + 1, hi))

BMul(a, b) == IF a = <<>> \/ b = <<>> THEN <<>> ELSE BMulRange(a, b, 1, Len(b))

\* a <= b
BLe(a, b) ==
    \/ Len(a) < Len(b)
    \/ /\ Len(a) = Len(b)
       /\ \A i \in 1..Len(a) : a[i] > b[i] => \E j \in (i + 1)..Len(a) : a[j] < b[j]

BLt(a, b) == ~BLe(b, a)

\* the largest q in lo..(lo + 9 * step) by step with q * b <= r
QStep(r, b, lo, step) ==
    SetMax({q \in {lo + step * i : i \in 0..9} : BLe(BMulSmall(b, q), r)})

\* the largest q in 0..Base-1 with q * b <= r, for r < Base * b
QLimb(r, b) == QStep(r, b, QStep(r, b, QStep(r, b, QStep(r, b, 0, 1000), 100), 10), 1)

\* long division, one limb a step: a[i] is brought down to the remainder r1,
\* d is its quotient limb
RECURSIVE BDivAcc(_, _, _, _, _)
BDivLimb(a, b, i, r1, q, d) ==
    BDivAcc(a, b, i - 1, BSub(r1, BMulSmall(b, d)), <<d>> \o q)

BDivDown(a, b, i, r1, q) == BDivLimb(a, b, i, r1, q, QLimb(r1, b))

BDivAcc(a, b, i, r, q) ==
    IF i = 0 THEN [q |-> BNorm(q), r |-> r]
    ELSE BDivDown(a, b, i, BNorm(<<a[i]>> \o r), q)

\* quotient and remainder of a by b > 0, starting from the Len(b) - 1
\* leading limbs of a, which are less than b
BDivMod(a, b) ==
    IF Len(a) < Len(b) THEN [q |-> <<>>, r |-> a]
    ELSE BDivAcc(a, b, Len(a) - Len(b) + 1,
                 SubSeq(a, Len(a) - Len(b) + 2, Len(a)), <<>>)

Pow10(j) == 10 ^ j

BPow10(k) == BShift(<<Pow10(k % 4)>>, k \div 4)

BOdd(a) == a # <<>> /\ a[1] % 2 = 1

\* the number of decimal zeros the limb x > 0 ends with
LimbZeros(x) == SetMax({z \in 0..3 : x % Pow10(z) = 0})

\* the number of decimal zeros a > 0 ends with, i its lowest non-zero limb
ZerosFrom(a, i) == 4 * (i - 1) + LimbZeros(a[i])

TrailingZeros(a) == ZerosFrom(a, -SetMax({-i : i \in {i \in 1..Len(a) : a[i] # 0}}))

\* t / p for t divisible by p, one of 1, 10, 100, 1000
BDropDigits(t, p) ==
    BNorm([i \in 1..Len(t) |-> (t[i] \div p) + (Limb(t, i + 1) % p) * (Base \div p)])

\* a / 10^m for a divisible by 10^m
BDropZeros(a, m) == BDropDigits(SubSeq(a, (m \div 4) + 1, Len(a)), Pow10(m % 4))

---------------------------------------------------------------------------
(* Exact non-negative rationals [n, d], d > 0.  RNorm cancels the common   *)
(* powers of ten, so a value with a power-of-ten denominator (every        *)
(* rounded output, every decimal literal, every product of those) has one  *)
(* representation and equal stored values are equal records.               *)

RDrop(x, m) == IF m = 0 THEN x ELSE [n |-> BDropZeros(x.n, m), d |-> BDropZeros(x.d, m)]

RNorm(x) ==
    IF x.n = <<>> THEN [n |-> <<>>, d |-> <<1>>]
    ELSE RDrop(x, Min(TrailingZeros(x.n), TrailingZeros(x.d)))

\* the decimal literal m * 10^-e
Dec(m, e) == RNorm([n |-> Big(m), d |-> BPow10(e)])

Whole(m) == [n |-> Big(m), d |-> <<1>>]

Zero == [n |-> <<>>, d |-> <<1>>]

RAdd(x, y) ==
    RNorm(IF x.d = y.d THEN [n |-> BAdd(x.n, y.n), d |-> x.d]
          ELSE [n |-> BAdd(BMul(x.n, y.d), BMul(y.n, x.d)), d |-> BMul(x.d, y.d)])

RMul(x, y) == RNorm([n |-> BMul(x.n, y.n), d |-> BMul(x.d, y.d)])

\* x / y for y > 0
RDiv(x, y) == RMul(x, [n |-> y.d, d |-> y.n])

RLe(x, y) == BLe(BMul(x.n, y.d), BMul(y.n, x.d))

RLt(x, y) == ~RLe(y, x)

REq(x, y) == RLe(x, y) /\ RLe(y, x)

IsZero(x) == x.n = <<>>

\* |x - y| <= t
RWithin(x, y, t) == RLe(x, RAdd(y, t)) /\ RLe(y, RAdd(x, t))

\* the integer nearest to the quotient qr.q with remainder qr.r by d, ties
\* to the even one
Nearest(qr, d) ==
    IF \/ BLt(d, BMulSmall(qr.r, 2))
       \/ d = BMulSmall(qr.r, 2) /\ BOdd(qr.q)
    THEN BAdd(qr.q, <<1>>) ELSE qr.q

\* round(x, k): the multiple of 10^-k nearest to x, ties to the even one
Round(x, k) ==
    RNorm([n |-> Nearest(BDivMod(BMul(x.n, BPow10(k)), x.d), x.d), d |-> BPow10(k)])

CeilOf(qr) == [n |-> IF qr.r = <<>> THEN qr.q ELSE BAdd(qr.q, <<1>>), d |-> <<1>>]

\* the whole number nearest to x
nearest(x) == Round(x, 0)

\* math.ceil(x)
ceil(x) == CeilOf(BDivMod(x.n, x.d))

---------------------------------------------------------------------------
(* Form fields.  An InputSet maps field names to the texts the form        *)
(* posted: Num(m, e) is the decimal numeral of m * 10^-e written with e    *)
(* digits after the point, Str(s) any other text.                          *)

Num(m, e) == [kind |-> "num", m |-> m, e |-> e]

Str(s) == [kind |-> "str", s |-> s]

\* float(v) succeeds on a numeral, int(v) on a numeral without a point
CanFloat(v) == v.kind = "num"

CanInt(v) == v.kind = "num" /\ v.e = 0

ToFloat(v) == Dec(v.m, v.e)

\* the text of a field: a numeral's text is no option of any select field
Text(v) == IF v.kind = "str" THEN v.s ELSE "0"

\* dict.get(key, default)
Get(d, key, default) == IF key \in DOMAIN d THEN d[key] ELSE default

\* str.lower() on the grade texts the model uses
Lower(s) ==
    CASE s = "M20" -> "m20"
      [] s = "M25" -> "m25"
      [] s = "M30" -> "m30"
      [] OTHER -> s

---------------------------------------------------------------------------
(* calculate_materials: conversion factors and the STANDARDS table.        *)

\* feet taken for metres
FeetAsMetres == Dec(10, 1)

\* line 23
FT_TO_M == Dec(3048, 4)

INCH_TO_M == Dec(254, 4)

SQFT_TO_SQM == Dec(92903, 6)

cement_bag_kg == Whole(50)

cement_bulk_density_kg_m3 == Whole(1440)

sand_bulk_density_kg_m3 == Whole(1600)

aggregate_bulk_density_kg_m3 == Whole(1500)

cement_content_per_m3 ==
    [m20 |-> Whole(320), m25 |-> Whole(360), m30 |-> Whole(400)]

mix_ratios ==
    [m20 |-> <<Dec(10, 1), Dec(15, 1), Dec(30, 1)>>,
     m25 |-> <<Dec(10, 1), Dec(10, 1), Dec(20, 1)>>,
     m30 |-> <<Dec(10, 1), Dec(75, 2), Dec(15, 1)>>]

steel_usage_kg_per_m3 ==
    [footing |-> Whole(90), column |-> Whole(130),
     beam |-> Whole(120), slab |-> Whole(100)]

paint_coverage_m2_per_litre == Whole(10)

mortar_ratio ==
    [r16 |-> <<Dec(10, 1), Dec(60, 1)>>,
     r14 |-> <<Dec(10, 1), Dec(40, 1)>>,
     r13 |-> <<Dec(10, 1), Dec(30, 1)>>]

\* mortar_ratio.get(mortar_mix, mortar_ratio['1:6'])
MortarParts(mix) ==
    CASE mix = "1:4" -> mortar_ratio.r14
      [] mix = "1:3" -> mortar_ratio.r13
      [] OTHER -> mortar_ratio.r16

IntFields == {"num_floors", "num_footings", "num_columns"}

OptionalIntFields == {"tile_size", "paint_coats"}

FloatFields ==
    {"footing_length", "footing_width", "footing_depth", "pcc_thickness",
     "column_length", "column_width", "column_height", "total_beam_length",
     "beam_width", "beam_depth", "slab_area", "slab_thickness",
     "external_wall_length", "internal_wall_length", "wall_thickness",
     "wall_height", "internal_plaster_thickness", "external_plaster_thickness"}

OptionalFloatFields ==
    {"brick_length_m", "brick_width_m", "brick_height_m", "flooring_area"}

\* Every subscript finds its key and every int() and float() succeeds.
Converts(inputs) ==
    /\ "structure_type" \in DOMAIN inputs
    /\ \A f \in IntFields : f \in DOMAIN inputs /\ CanInt(inputs[f])
    /\ \A f \in FloatFields : f \in DOMAIN inputs /\ CanFloat(inputs[f])
    /\ \A f \in OptionalIntFields : f \in DOMAIN inputs => CanInt(inputs[f])
    /\ \A f \in OptionalFloatFields : f \in DOMAIN inputs => CanFloat(inputs[f])

Mul3(a, b, c) == RMul(RMul(a, b), c)

Mul4(a, b, c, d) == RMul(Mul3(a, b, c), d)

\* float(inputs[k]), int(inputs[k])
Field(inputs, k) == ToFloat(inputs[k])

(* The local variables of calculate_materials are kept in a record that   *)
(* each group of statements extends, so that a statement reads the values *)
(* the earlier statements assigned.                                       *)

\* Lines 69-98: the dimensions converted to metres.
Dimensions(inputs) ==
    [num_floors |-> Field(inputs, "num_floors"),
     num_footings |-> Field(inputs, "num_footings"),
     footing_length |-> RMul(Field(inputs, "footing_length"), FT_TO_M),
     footing_width |-> RMul(Field(inputs, "footing_width"), FT_TO_M),
     footing_depth |-> RMul(Field(inputs, "footing_depth"), FT_TO_M),
     pcc_thickness |-> RMul(Field(inputs, "pcc_thickness"), INCH_TO_M),
     num_columns |-> Field(inputs, "num_columns"),
     column_length |-> RMul(Field(inputs, "column_length"), INCH_TO_M),
     column_width |-> RMul(Field(inputs, "column_width"), INCH_TO_M),
     column_height |-> RMul(Field(inputs, "column_height"), FT_TO_M),
     total_beam_length |-> RMul(Field(inputs, "total_beam_length"), FT_TO_M),
     beam_width |-> RMul(Field(inputs, "beam_width"), INCH_TO_M),
     beam_depth |-> RMul(Field(inputs, "beam_depth"), INCH_TO_M),
     slab_area |-> RMul(Field(inputs, "slab_area"), SQFT_TO_SQM),
     slab_thickness |-> RMul(Field(inputs, "slab_thickness"), INCH_TO_M)]

\* Lines 80-102: the unrounded volumes.
VolumesOf(e) ==
    [footing_vol |-> Mul4(e.num_footings, e.footing_length, e.footing_width,
                          e.footing_depth),
     pcc_vol |-> Mul4(e.num_footings, e.footing_length, e.footing_width,
                      e.pcc_thickness),
     column_vol |-> RMul(Mul4(e.num_columns, e.num_floors, e.column_length,
                              e.column_width), e.column_height),
     beam_vol |-> Mul4(e.total_beam_length, e.beam_width, e.beam_depth, e.num_floors),
     slab_vol |-> Mul3(e.slab_area, e.slab_thickness, e.num_floors)]

Volumes(inputs) == VolumesOf(Dimensions(inputs))

\* Lines 104-109: materials['concrete'].
ConcreteSection(v) ==
    [pcc_volume |-> Round(v.pcc_vol, 2),
     footing_rcc |-> Round(v.footing_vol, 2),
     column_rcc |-> Round(v.column_vol, 2),
     beam_rcc |-> Round(v.beam_vol, 2),
     slab_rcc |-> Round(v.slab_vol, 2),
     total_rcc |-> Round(RAdd(RAdd(RAdd(v.footing_vol, v.column_vol), v.beam_vol),
                              v.slab_vol), 2)]

\* Line 114: total_concrete is read back from the rounded outputs.
TotalConcrete(concrete) == RAdd(concrete.pcc_volume, concrete.total_rcc)

\* dict.get(concrete_grade, dict['m20']) on a STANDARDS table
ByGrade(table, concrete_grade) ==
    IF concrete_grade \in DOMAIN table THEN table[concrete_grade] ELSE table["m20"]

\* Lines 112-124: the grade, its cement content and its mix ratio.
MixRatio(concrete_grade, concrete) ==
    [total_concrete |-> TotalConcrete(concrete),
     cement_kg_per_m3 |-> ByGrade(cement_content_per_m3, concrete_grade),
     sand_part |-> ByGrade(mix_ratios, concrete_grade)[2],
     agg_part |-> ByGrade(mix_ratios, concrete_grade)[3],
     total_parts |-> RAdd(RAdd(ByGrade(mix_ratios, concrete_grade)[1],
                               ByGrade(mix_ratios, concrete_grade)[2]),
                          ByGrade(mix_ratios, concrete_grade)[3])]

\* Lines 119-130: the cement mass and the constituent volumes.
MixVolumes(e) ==
    [cement_for_concrete_kg |-> RMul(e.total_concrete, e.cement_kg_per_m3),
     sand_vol |-> RMul(RDiv(e.sand_part, e.total_parts), e.total_concrete),
     agg_vol |-> RMul(RDiv(e.agg_part, e.total_parts), e.total_concrete)]

\* Lines 120-133: the bags and the masses.
MixMasses(e) ==
    [cement_bags_concrete |-> ceil(RDiv(e.cement_for_concrete_kg, cement_bag_kg)),
     sand_vol |-> e.sand_vol,
     agg_vol |-> e.agg_vol,
     sand_mass_kg |-> RMul(e.sand_vol, sand_bulk_density_kg_m3),
     agg_mass_kg |-> RMul(e.agg_vol, aggregate_bulk_density_kg_m3)]

\* Lines 112-133: cement bags and the sand and aggregate of the concrete.
Mix(inputs, concrete) ==
    MixMasses(MixVolumes(MixRatio(Lower(Text(Get(inputs, "concrete_grade", Str("m20")))),
                                  concrete)))

plaster_cement_part == Dec(10, 1)

plaster_sand_part == Dec(30, 1)

\* Lines 136-154: the wall dimensions converted to metres, the mortar ratio.
WallDimensions(inputs) ==
    [num_floors |-> Field(inputs, "num_floors"),
     mortar_parts |-> MortarParts(IF Get(inputs, "mortar_mix", Str("1:6")).kind = "str"
                                  THEN Get(inputs, "mortar_mix", Str("1:6")).s ELSE ""),
     external_wall_length |-> RMul(Field(inputs, "external_wall_length"), FT_TO_M),
     internal_wall_length |-> RMul(Field(inputs, "internal_wall_length"), FT_TO_M),
     wall_thickness |-> RMul(Field(inputs, "wall_thickness"), INCH_TO_M),
     wall_height |-> RMul(Field(inputs, "wall_height"), FT_TO_M),
     internal_plaster_thickness |->
         RMul(Field(inputs, "internal_plaster_thickness"), INCH_TO_M),
     external_plaster_thickness |->
         RMul(Field(inputs, "external_plaster_thickness"), INCH_TO_M)]

\* Lines 142, 149, 156, 164
WallLengths(e) ==
    Merge(e,
        [total_wall_length |->
             RMul(RAdd(e.external_wall_length, e.internal_wall_length), e.num_floors),
         plaster_area_external |->
             Mul3(e.external_wall_length, e.num_floors, e.wall_height),
         mortar_total_parts |-> RAdd(e.mortar_parts[1], e.mortar_parts[2]),
         plaster_total_parts |-> RAdd(plaster_cement_part, plaster_sand_part)])

\* Lines 145, 155
WallVolume(e) ==
    Merge(e,
        [wall_volume |-> Mul3(e.total_wall_length, e.wall_thickness, e.wall_height),
         plaster_area_internal |-> Mul3(e.total_wall_length, e.wall_height, Dec(8, 1))])

\* Lines 148, 158-159
MortarVolume(e) ==
    Merge(e,
        [mortar_volume |-> RMul(e.wall_volume, Dec(10, 2)),
         plaster_vol_internal |->
             RMul(e.plaster_area_internal, e.internal_plaster_thickness),
         plaster_vol_external |->
             RMul(e.plaster_area_external, e.external_plaster_thickness)])

\* Lines 151, 160, 186
PlasterVolume(e) ==
    Merge(e,
        [cement_for_mortar_kg |->
             Mul3(e.mortar_volume, RDiv(e.mortar_parts[1], e.mortar_total_parts),
                  cement_bulk_density_kg_m3),
         total_plaster_vol |-> RAdd(e.plaster_vol_internal, e.plaster_vol_external),
         mortar_sand_vol |->
             RMul(e.mortar_volume, RDiv(e.mortar_parts[2], e.mortar_total_parts))])

\* Lines 165, 187, 192
PlasterCement(e) ==
    Merge(e,
        [cement_for_plaster_kg |->
             Mul3(e.total_plaster_vol, RDiv(plaster_cement_part, e.plaster_total_parts),
                  cement_bulk_density_kg_m3),
         mortar_sand_kg |-> RMul(e.mortar_sand_vol, sand_bulk_density_kg_m3),
         plaster_sand_vol |->
             RMul(e.total_plaster_vol, RDiv(plaster_sand_part, e.plaster_total_parts))])

\* Line 193
PlasterSand(e) ==
    Merge(e, [plaster_sand_kg |-> RMul(e.plaster_sand_vol, sand_bulk_density_kg_m3)])

\* Lines 136-169 and 186-193: walls, mortar and plaster, unrounded.
Walls(inputs) ==
    PlasterSand(PlasterCement(PlasterVolume(MortarVolume(WallVolume(WallLengths(
        WallDimensions(inputs)))))))

\* Line 178: total_bags from the three bag counts.
TotalBags(for_concrete, for_mortarbrickwork, for_plaster) ==
    Round(RAdd(RAdd(for_concrete, for_mortarbrickwork), for_plaster), 0)

\* Lines 175-178
CementTotals(for_concrete, for_mortarbrickwork, for_plaster) ==
    [for_concrete |-> for_concrete,
     for_mortarbrickwork |-> for_mortarbrickwork,
     for_plaster |-> for_plaster,
     total_bags |-> TotalBags(for_concrete, for_mortarbrickwork, for_plaster)]

\* Lines 171-178: materials['cement'].
CementSection(mix, w) ==
    CementTotals(Round(mix.cement_bags_concrete, 0),
                 Round(ceil(RDiv(w.cement_for_mortar_kg, cement_bag_kg)), 0),
                 Round(ceil(RDiv(w.cement_for_plaster_kg, cement_bag_kg)), 0))

\* a total that leaves the plaster sand out
TotalSandKgNoPlaster(sand_mass_kg, mortar_sand_kg, plaster_sand_kg) ==
    Round(RAdd(sand_mass_kg, mortar_sand_kg), 1)

\* Line 197: total_sand_kg from the three unrounded masses.
TotalSandKg(sand_mass_kg, mortar_sand_kg, plaster_sand_kg) ==
    Round(RAdd(RAdd(sand_mass_kg, mortar_sand_kg), plaster_sand_kg), 1)

\* Lines 182-197: materials['sand'].
SandSection(mix, w) ==
    [concrete_sand_m3 |-> Round(mix.sand_vol, 3),
     concrete_sand_kg |-> Round(mix.sand_mass_kg, 1),
     brickwork_sand_m3 |-> Round(w.mortar_sand_vol, 3),
     brickwork_sand_kg |-> Round(w.mortar_sand_kg, 1),
     plaster_sand_m3 |-> Round(w.plaster_sand_vol, 3),
     plaster_sand_kg |-> Round(w.plaster_sand_kg, 1),
     total_sand_kg |-> TotalSandKg(mix.sand_mass_kg, w.mortar_sand_kg, w.plaster_sand_kg)]

\* Lines 200-202: materials['aggregate'].
AggregateSection(mix) ==
    [concrete_aggregate_m3 |-> Round(mix.agg_vol, 3),
     concrete_aggregate_kg |-> Round(mix.agg_mass_kg, 1),
     total_aggregate_kg |-> Round(mix.agg_mass_kg, 1)]

\* Line 215: total_steel_kg from the four unrounded masses.
TotalSteelKg(steel_for_footing, steel_for_column, steel_for_beam, steel_for_slab) ==
    Round(RAdd(RAdd(RAdd(steel_for_footing, steel_for_column), steel_for_beam),
               steel_for_slab), 1)

\* Lines 211-215
SteelTotals(steel_for_footing, steel_for_column, steel_for_beam, steel_for_slab) ==
    [footing_steel_kg |-> Round(steel_for_footing, 1),
     column_steel_kg |-> Round(steel_for_column, 1),
     beam_steel_kg |-> Round(steel_for_beam, 1),
     slab_steel_kg |-> Round(steel_for_slab, 1),
     total_steel_kg |-> TotalSteelKg(steel_for_footing, steel_for_column,
                                     steel_for_beam, steel_for_slab)]

\* Lines 205-215: materials['steel'].
SteelSection(v) ==
    SteelTotals(RMul(v.footing_vol, steel_usage_kg_per_m3.footing),
                RMul(v.column_vol, steel_usage_kg_per_m3.column),
                RMul(v.beam_vol, steel_usage_kg_per_m3.beam),
                RMul(v.slab_vol, steel_usage_kg_per_m3.slab))

\* Line 220: 1.0 / brick_size if brick_size > 0 else 0
BricksPerM3(brick_size) ==
    IF ~IsZero(brick_size) THEN RDiv(Whole(1), brick_size) ELSE Zero

\* Lines 219-225: materials['masonry'].
MasonrySection(inputs, w) ==
    [brick_quantity |->
         Round(RMul(w.wall_volume,
                    BricksPerM3(Mul3(ToFloat(Get(inputs, "brick_length_m", Num(230, 3))),
                                     ToFloat(Get(inputs, "brick_width_m", Num(115, 3))),
                                     ToFloat(Get(inputs, "brick_height_m", Num(75, 3)))))),
               0),
     mortar_volume_m3 |-> Round(w.mortar_volume, 3)]

\* x ** 2
Square(x) == RMul(x, x)

\* Line 231: (flooring_area_sqft / tile_area_sqft) if tile_area_sqft > 0 else 0
TilesRequired(flooring_area_sqft, tile_area_sqft) ==
    IF ~IsZero(tile_area_sqft) THEN RDiv(flooring_area_sqft, tile_area_sqft) ELSE Zero

\* Lines 231-247
FinishingOf(flooring_area_sqft, tile_area_sqft, paint_required_l, total_plaster_vol) ==
    [floor_tiles_qty |->
         Round(RMul(TilesRequired(flooring_area_sqft, tile_area_sqft), Dec(105, 2)), 0),
     paint_liters |-> Round(paint_required_l, 2),
     plaster_volume_m3 |-> Round(total_plaster_vol, 3),
     flooring_area_sqft |-> Round(flooring_area_sqft, 2),
     flooring_area_m2 |-> Round(RMul(flooring_area_sqft, SQFT_TO_SQM), 3),
     tile_area_m2 |-> Round(RMul(tile_area_sqft, SQFT_TO_SQM), 4)]

\* Lines 228-247: materials['finishing'].
FinishingSection(inputs, w) ==
    FinishingOf(ToFloat(Get(inputs, "flooring_area", Num(0, 1))),
                Square(RDiv(ToFloat(Get(inputs, "tile_size", Num(12, 0))), Dec(120, 1))),
                RDiv(RMul(RAdd(w.plaster_area_internal, w.plaster_area_external),
                          ToFloat(Get(inputs, "paint_coats", Num(2, 0)))),
                     paint_coverage_m2_per_litre),
                w.total_plaster_vol)

\* Lines 58-66 and 249: the materials dict from the values computed above.
Sections(inputs, v, w, concrete, mix) ==
    [concrete |-> concrete,
     cement |-> CementSection(mix, w),
     sand |-> SandSection(mix, w),
     aggregate |-> AggregateSection(mix),
     steel |-> SteelSection(v),
     masonry |-> MasonrySection(inputs, w),
     finishing |-> FinishingSection(inputs, w)]

MaterialsFrom(inputs, v, w, concrete) ==
    Sections(inputs, v, w, concrete, Mix(inputs, concrete))

MaterialsOf(inputs, v, w) == MaterialsFrom(inputs, v, w, ConcreteSection(v))

\* The materials dict calculate_materials returns when nothing raises.
Materials(inputs) == MaterialsOf(inputs, Volumes(inputs), Walls(inputs))

Raised == [raised |-> TRUE]

calculate_materials(inputs) ==
    IF Converts(inputs) THEN Materials(inputs) ELSE Raised


---------------------------------------------------------------------------
(* The heap.  Python dicts are objects: heap[a] is the dict at address a,  *)
(* a function from keys to values.  A value is a number, None, or a        *)
(* reference Ref(a) to another dict; address 0 stands for None where a     *)
(* variable holds a dict or None.  Floats are immutable, so numbers are    *)
(* held by value.                                                          *)

None == [none |-> TRUE]

Ref(a) == [ref |-> a]

EmptyDict == [k \in {} |-> None]

\* isinstance(v, (int, float))
IsNumber(v) == DOMAIN v = {"n", "d"}

IsRef(v) == DOMAIN v = {"ref"}

\* the address a dict allocated next gets
NewAddr(h) == Len(h) + 1

\* the nested value of the dict of dicts at address a
Deref(h, a) ==
    [s \in DOMAIN h[a] |-> IF IsRef(h[a][s]) THEN h[h[a][s].ref] ELSE h[a][s]]

SectionOrder ==
    <<"concrete", "cement", "sand", "aggregate", "steel", "masonry", "finishing">>

\* A dict of section dicts built on the heap (calculate_materials lines
\* 58-66 and 249): one new dict per section and one for the whole.
StoreMaterials(h, m) ==
    LET secs == SelectSeq(SectionOrder, LAMBDA s : s \in DOMAIN m)
        at(s) == Len(h) + (CHOOSE i \in 1..Len(secs) : secs[i] = s)
    IN  [heap |-> h \o [i \in 1..Len(secs) |-> m[secs[i]]]
                    \o <<[s \in DOMAIN m |-> Ref(at(s))]>>,
         ret |-> Len(h) + Len(secs) + 1]

\* the dicts the dict at address a refers to
Targets(h, a) == {h[a][k].ref : k \in {k \in DOMAIN h[a] : IsRef(h[a][k])}}

\* copy.copy of the dict at address a: a new dict referring to the same
\* section dicts
ShallowCopy(h, a) == [heap |-> Append(h, h[a]), ret |-> NewAddr(h)]

\* copy.deepcopy of the dict at address a: a new dict whose every referred
\* dict is a new copy (one copy per referred dict, as deepcopy's memo keeps
\* the sharing inside the copy).
DeepCopy(h, a) ==
    LET ts == Targets(h, a)
        rank(t) == Cardinality({u \in ts : u <= t})
        nth(i) == CHOOSE t \in ts : rank(t) = i
        copy(v) == IF IsRef(v) THEN Ref(Len(h) + rank(v.ref)) ELSE v
    IN  [heap |-> h \o [i \in 1..Cardinality(ts) |-> h[nth(i)]]
                    \o <<[k \in DOMAIN h[a] |-> copy(h[a][k])]>>,
         ret |-> Len(h) + Cardinality(ts) + 1]

---------------------------------------------------------------------------
(* generate_plan_variants                                                  *)

Plans == {"economy", "standard", "premium"}

\* lines 264-275
AdjustmentFactor(plan_type) ==
    IF plan_type = "economy" THEN Dec(108, 2)
    ELSE IF plan_type = "premium" THEN Dec(95, 2)
    ELSE Dec(10, 1)

\* the adjuster scaling every numeric field of masonry as well
AdjustedKeysAllMasonry(s, d) ==
    CASE s \in {"concrete", "cement", "sand", "aggregate", "steel", "masonry"} ->
             {key \in DOMAIN d : IsNumber(d[key])}
      [] s = "finishing" -> {"floor_tiles_qty"} \cap DOMAIN d
      [] OTHER -> {}

\* the adjuster leaving the total_bags it is given as it stands
AdjustedKeysNoTotalBags(s, d) ==
    CASE s \in {"concrete", "cement", "sand", "aggregate", "steel"} ->
             {key \in DOMAIN d : IsNumber(d[key]) /\ key # "total_bags"}
      [] s = "masonry" -> {"brick_quantity"} \cap DOMAIN d
      [] s = "finishing" -> {"floor_tiles_qty"} \cap DOMAIN d
      [] OTHER -> {}

\* lines 277-309: the keys of the section dict d named s that are adjusted
AdjustedKeys(s, d) ==
    CASE s \in {"concrete", "cement", "sand", "aggregate", "steel"} ->
             {key \in DOMAIN d : IsNumber(d[key])}
      [] s = "masonry" -> {"brick_quantity"} \cap DOMAIN d
      [] s = "finishing" -> {"floor_tiles_qty"} \cap DOMAIN d
      [] OTHER -> {}

\* lines 277-309: the decimals the values of section s are re-rounded to
Decimals(s) ==
    CASE s = "concrete" -> 2
      [] s \in {"sand", "aggregate", "steel"} -> 1
      [] OTHER -> 0

\* round(d[key] * adjustment_factor, k) on the given keys
Scale(d, keys, factor, k) ==
    [key \in DOMAIN d |->
        IF key \in keys THEN Round(RMul(d[key], factor), k) ELSE d[key]]

\* lines 277-309: the section dict named s after the adjustment
AdjustSection(s, d, factor) == Scale(d, AdjustedKeys(s, d), factor, Decimals(s))

\* the section name under which the dict at address top refers to address a
SectionAt(h, top, a) == CHOOSE s \in DOMAIN h[top] : h[top][s] = Ref(a)

\* lines 277-309 on the copy c
Adjust(c, factor) ==
    [heap |-> [a \in DOMAIN c.heap |->
                  IF a \in Targets(c.heap, c.ret)
                  THEN AdjustSection(SectionAt(c.heap, c.ret, a), c.heap[a], factor)
                  ELSE c.heap[a]],
     ret |-> c.ret]

\* the adjustment without the test of line 276
AdjustAlways(c, factor) == Adjust(c, factor)

\* lines 276-311 on the copy c
AdjustIf(c, factor) == IF factor # Dec(10, 1) THEN Adjust(c, factor) ELSE c

\* an adjustment of the snapshot it is given, without a copy
AdjustInPlace(h, materials_addr, plan_type) ==
    AdjustIf([heap |-> h, ret |-> materials_addr], AdjustmentFactor(plan_type))

\* The adjusted copy: the heap after the call and the address returned.
generate_plan_variants(h, materials_addr, plan_type) ==
    AdjustIf(DeepCopy(h, materials_addr), AdjustmentFactor(plan_type))

---------------------------------------------------------------------------
(* calculate_cost                                                          *)

RateKeys ==
    {"cement_per_bag", "sand_per_m3", "aggregate_per_m3", "steel_per_kg",
     "brick_per_100", "tile_per_sqm", "paint_per_liter", "plaster_per_m3"}

\* lines 324-333
default_rates ==
    [cement_per_bag |-> Dec(4200, 1), sand_per_m3 |-> Dec(12000, 1),
     aggregate_per_m3 |-> Dec(9000, 1), steel_per_kg |-> Dec(650, 1),
     brick_per_100 |-> Dec(3500, 1), tile_per_sqm |-> Dec(3000, 1),
     paint_per_liter |-> Dec(5000, 1), plaster_per_m3 |-> Dec(20000, 1)]

\* the truth value Python gives a dict or None held at address a
Truthy(h, a) == a # 0 /\ DOMAIN h[a] # {}

\* lines 339-347: the factor the plan puts on every rate
RateFactor(plan_type) ==
    IF plan_type = "economy" THEN Dec(90, 2)
    ELSE IF plan_type = "premium" THEN Dec(115, 2)
    ELSE Dec(10, 1)

\* lines 339-347: rates, a new dict in every branch
ScaledRates(base_rates, plan_type) ==
    [k \in DOMAIN base_rates |-> RMul(base_rates[k], RateFactor(plan_type))]

\* materials.get(section, {}).get(key, 0)
Qty(m, section, key) ==
    IF section \in DOMAIN m /\ key \in DOMAIN m[section] THEN m[section][key] ELSE Zero

\* the volume taken from the mass whenever a mass is known
OrFromKgFirst(m3, kg, density) ==
    IF ~IsZero(kg) THEN RDiv(kg, density) ELSE m3

\* lines 370-372: the fallback from kilograms
OrFromKg(m3, kg, density) ==
    IF IsZero(m3) /\ ~IsZero(kg) THEN RDiv(kg, density) ELSE m3

\* lines 365-372
SandM3(m) ==
    OrFromKg(RAdd(RAdd(Qty(m, "sand", "concrete_sand_m3"),
                       Qty(m, "sand", "brickwork_sand_m3")),
                  Qty(m, "sand", "plaster_sand_m3")),
             Qty(m, "sand", "total_sand_kg"), Dec(16000, 1))

\* lines 377-379
AggM3(m) ==
    OrFromKg(Qty(m, "aggregate", "concrete_aggregate_m3"),
             Qty(m, "aggregate", "concrete_aggregate_kg"), Dec(15000, 1))

CostOrder ==
    <<"cement", "sand", "aggregate", "steel", "bricks", "tiles", "paint", "plaster">>

\* lines 356-405: the itemized dict before rounding
Itemized(m, rates) ==
    [cement |-> RMul(Qty(m, "cement", "total_bags"), rates["cement_per_bag"]),
     sand |-> RMul(SandM3(m), rates["sand_per_m3"]),
     aggregate |-> RMul(AggM3(m), rates["aggregate_per_m3"]),
     steel |-> RMul(Qty(m, "steel", "total_steel_kg"), rates["steel_per_kg"]),
     bricks |-> RMul(RDiv(Qty(m, "masonry", "brick_quantity"), Dec(1000, 1)),
                     rates["brick_per_100"]),
     tiles |-> RMul(Qty(m, "finishing", "flooring_area_m2"), rates["tile_per_sqm"]),
     paint |-> RMul(Qty(m, "finishing", "paint_liters"), rates["paint_per_liter"]),
     plaster |-> RMul(Qty(m, "finishing", "plaster_volume_m3"), rates["plaster_per_m3"])]

\* sum(d.values()) over the eight categories
RECURSIVE SumFrom(_, _)
SumFrom(d, i) ==
    IF i > Len(CostOrder) THEN Zero ELSE RAdd(d[CostOrder[i]], SumFrom(d, i + 1))

SumValues(d) == SumFrom(d, 1)

\* a cost per area that is 0, not None, without an area
CostPerSqftOrZero(total_material_cost, total_built_area_sqft) ==
    IF ~IsZero(total_built_area_sqft)
    THEN RDiv(total_material_cost, total_built_area_sqft)
    ELSE Zero

\* line 412
CostPerSqft(total_material_cost, total_built_area_sqft) ==
    IF ~IsZero(total_built_area_sqft)
    THEN RDiv(total_material_cost, total_built_area_sqft)
    ELSE None

\* a total that leaves the plaster cost out
TotalSkippingPlaster(itemized) == SumValues([itemized EXCEPT !["plaster"] = Zero])

\* line 408
TotalMaterialCost(itemized) == SumValues(itemized)

\* {k: round(v, 2) for k, v in d.items()}
RoundAll(d, k) == [key \in DOMAIN d |-> Round(d[key], k)]

\* round(x, k) if x is not None else None
RoundOrNone(x, k) == IF x # None THEN Round(x, k) ELSE None

\* lines 415-422, with applied_rates the dict at rates_addr
Result(itemized_costs, total_material_cost, total_built_area_sqft, rates_addr) ==
    [itemized_costs |-> itemized_costs,
     material_costs |-> itemized_costs,
     applied_rates |-> Ref(rates_addr),
     total_material_cost |-> Round(total_material_cost, 2),
     cost_per_sqft |-> RoundOrNone(CostPerSqft(total_material_cost,
                                               total_built_area_sqft), 2),
     total_built_area_sqft |-> Round(total_built_area_sqft, 2)]

\* lines 408-422 from the itemized dict
ResultOf(itemized, total_built_area_sqft, rates_addr) ==
    Result(RoundAll(itemized, 2), TotalMaterialCost(itemized), total_built_area_sqft,
           rates_addr)

\* lines 356-422
CostResult(m, rates, rates_addr) ==
    ResultOf(Itemized(m, rates), Qty(m, "finishing", "flooring_area_sqft"), rates_addr)

\* a selection that ignores custom_rates
BaseRatesDefaultOnly(h, custom_rates, default_addr) == default_addr

\* line 336: the address of base_rates
BaseRates(h, custom_rates, default_addr) ==
    IF Truthy(h, custom_rates) THEN custom_rates ELSE default_addr

\* lines 349-422 with rates the dict just put at the end of the heap h, or
\* Raised when a rate key is missing (KeyError, lines 361-404)
CostWith(h, materials_addr) ==
    [heap |-> h,
     ret |-> IF RateKeys \subseteq DOMAIN h[Len(h)]
             THEN CostResult(Deref(h, materials_addr), h[Len(h)], Len(h))
             ELSE Raised]

\* a calculate_cost that scales the rates of base_rates in place
CostFromInPlace(h, materials_addr, plan_type, custom_rates) ==
    CostWith(Append([h EXCEPT ![BaseRates(h, custom_rates, Len(h))] =
                                  ScaledRates(h[BaseRates(h, custom_rates, Len(h))],
                                              plan_type)],
                    ScaledRates(h[BaseRates(h, custom_rates, Len(h))], plan_type)),
             materials_addr)

\* a calculate_cost whose standard rates are base_rates itself, not a copy
CostFromAliased(h, materials_addr, plan_type, custom_rates) ==
    IF plan_type = "standard" /\ Truthy(h, custom_rates)
          /\ RateKeys \subseteq DOMAIN h[custom_rates]
    THEN [heap |-> h,
          ret |-> CostResult(Deref(h, materials_addr), h[custom_rates], custom_rates)]
    ELSE CostWith(Append(h, ScaledRates(h[BaseRates(h, custom_rates, Len(h))],
                                        plan_type)),
                  materials_addr)

\* lines 336-347 with default_rates the dict just put at the end of the heap h
CostFrom(h, materials_addr, plan_type, custom_rates) ==
    CostWith(Append(h, ScaledRates(h[BaseRates(h, custom_rates, Len(h))], plan_type)),
             materials_addr)

\* The heap after the call (default_rates and rates are new dicts) and the
\* result.
calculate_cost(h, materials_addr, plan_type, custom_rates) ==
    CostFrom(Append(h, default_rates), materials_addr, plan_type, custom_rates)

---------------------------------------------------------------------------
(* generate_boq                                                            *)

\* d.get(key): None when the key is missing
GetOrNone(d, key) == IF key \in DOMAIN d THEN d[key] ELSE None

Row(item, quantity, unit, rate, amount) ==
    [item |-> item, quantity |-> quantity, unit |-> unit, rate |-> rate,
     amount |-> amount]

\* a concrete row priced as cement
ConcreteRowPriced(m, item, key, rates, itemized) ==
    Row(item, Qty(m, "concrete", key), "m3", GetOrNone(rates, "cement_per_bag"),
        GetOrNone(itemized, "cement"))

\* lines 442-446
ConcreteRow(m, item, key, rates, itemized) ==
    Row(item, Qty(m, "concrete", key), "m3", None, None)

\* a priced row showing the unscaled default rate
PricedRowRawRate(item, quantity, unit, rates, rate_key, itemized, cost_key) ==
    Row(item, quantity, unit, GetOrNone(default_rates, rate_key),
        GetOrNone(itemized, cost_key))

\* lines 447-454
PricedRow(item, quantity, unit, rates, rate_key, itemized, cost_key) ==
    Row(item, quantity, unit, GetOrNone(rates, rate_key), GetOrNone(itemized, cost_key))

\* m is the nested value of the materials dict, cost the cost dict; the
\* applied_rates it refers to are read from the heap h.
BoqRows(m, rates, itemized) ==
        <<ConcreteRow(m, "PCC (Plain Cement Concrete)", "pcc_volume", rates, itemized),
          ConcreteRow(m, "RCC Footing Concrete", "footing_rcc", rates, itemized),
          ConcreteRow(m, "RCC Column Concrete", "column_rcc", rates, itemized),
          ConcreteRow(m, "RCC Beam Concrete", "beam_rcc", rates, itemized),
          ConcreteRow(m, "RCC Slab Concrete", "slab_rcc", rates, itemized),
          PricedRow("Cement", Qty(m, "cement", "total_bags"), "bags",
                    rates, "cement_per_bag", itemized, "cement"),
          PricedRow("Sand",
                    Round(RAdd(RAdd(Qty(m, "sand", "concrete_sand_m3"),
                                    Qty(m, "sand", "brickwork_sand_m3")),
                               Qty(m, "sand", "plaster_sand_m3")), 3),
                    "m3", rates, "sand_per_m3", itemized, "sand"),
          PricedRow("Aggregate", Qty(m, "aggregate", "concrete_aggregate_m3"), "m3",
                    rates, "aggregate_per_m3", itemized, "aggregate"),
          PricedRow("Steel Reinforcement", Qty(m, "steel", "total_steel_kg"), "kg",
                    rates, "steel_per_kg", itemized, "steel"),
          PricedRow("Bricks", Qty(m, "masonry", "brick_quantity"), "nos",
                    rates, "brick_per_100", itemized, "bricks"),
          PricedRow("Floor Tiles", Qty(m, "finishing", "flooring_area_m2"), "m2",
                    rates, "tile_per_sqm", itemized, "tiles"),
          PricedRow("Paint", Qty(m, "finishing", "paint_liters"), "liters",
                    rates, "paint_per_liter", itemized, "paint"),
          PricedRow("Plaster", Qty(m, "finishing", "plaster_volume_m3"), "m3",
                    rates, "plaster_per_m3", itemized, "plaster")>>

generate_boq(h, m, cost) ==
    BoqRows(m,
            IF "applied_rates" \in DOMAIN cost
            THEN h[cost["applied_rates"].ref] ELSE EmptyDict,
            IF "itemized_costs" \in DOMAIN cost
            THEN cost["itemized_costs"] ELSE EmptyDict)

---------------------------------------------------------------------------
(* estimate: the fields it collects and the lists its validation uses.     *)

\* app.py lines 61-66
numeric_fields ==
    {"plot_length", "plot_width", "num_floors", "floor_height", "num_footings",
     "footing_length", "footing_width", "footing_depth", "pcc_thickness",
     "num_columns", "column_length", "column_width", "column_height",
     "total_beam_length", "beam_width", "beam_depth", "slab_area", "slab_thickness",
     "external_wall_length", "internal_wall_length", "wall_thickness", "wall_height",
     "internal_plaster_thickness", "external_plaster_thickness", "flooring_area",
     "paint_coats"}

\* app.py lines 18-55: the keys of inputs
RequiredFields ==
    numeric_fields \cup {"structure_type", "footing_type", "tile_size", "paint_type",
                         "concrete_grade", "cement_type", "mortar_mix"}

\* app.py line 77
valid_structures == {"rcc_framed", "load_bearing"}

\* app.py line 81
valid_footings == {"isolated", "combined"}

\* app.py line 85
valid_grades == {"m20", "m25", "m30"}

\* app.py line 89
valid_mortars == {"1:6", "1:4", "1:3"}

---------------------------------------------------------------------------
(* Bounded inputs.                                                         *)

MaxFloors == 2

\* the two-storey house of the specification's scenario
House ==
    [structure_type |-> Str("rcc_framed"), footing_type |-> Str("isolated"),
     num_footings |-> Num(8, 0), footing_length |-> Num(4, 0),
     footing_width |-> Num(4, 0), footing_depth |-> Num(1, 0),
     pcc_thickness |-> Num(3, 0), num_columns |-> Num(8, 0),
     column_length |-> Num(12, 0), column_width |-> Num(12, 0),
     column_height |-> Num(10, 0), total_beam_length |-> Num(200, 0),
     beam_width |-> Num(9, 0), beam_depth |-> Num(12, 0),
     slab_area |-> Num(1200, 0), slab_thickness |-> Num(5, 0),
     external_wall_length |-> Num(140, 0), internal_wall_length |-> Num(80, 0),
     wall_thickness |-> Num(9, 0), wall_height |-> Num(10, 0),
     internal_plaster_thickness |-> Num(5, 1),
     external_plaster_thickness |-> Num(75, 2),
     flooring_area |-> Num(1200, 0), tile_size |-> Num(12, 0),
     paint_coats |-> Num(2, 0), plot_length |-> Num(30, 0),
     plot_width |-> Num(40, 0), floor_height |-> Num(10, 0),
     paint_type |-> Str("emulsion"), cement_type |-> Str("opc")]

\* a garden shed: the same fields at a small scale
Shed ==
    [structure_type |-> Str("load_bearing"), footing_type |-> Str("combined"),
     num_footings |-> Num(4, 0), footing_length |-> Num(15, 1),
     footing_width |-> Num(15, 1), footing_depth |-> Num(1, 0),
     pcc_thickness |-> Num(2, 0), num_columns |-> Num(4, 0),
     column_length |-> Num(6, 0), column_width |-> Num(6, 0),
     column_height |-> Num(75, 1), total_beam_length |-> Num(24, 0),
     beam_width |-> Num(6, 0), beam_depth |-> Num(6, 0),
     slab_area |-> Num(36, 0), slab_thickness |-> Num(4, 0),
     external_wall_length |-> Num(24, 0), internal_wall_length |-> Num(6, 0),
     wall_thickness |-> Num(45, 1), wall_height |-> Num(75, 1),
     internal_plaster_thickness |-> Num(5, 1),
     external_plaster_thickness |-> Num(5, 1),
     flooring_area |-> Num(365, 1), tile_size |-> Num(8, 0),
     paint_coats |-> Num(1, 0), plot_length |-> Num(10, 0),
     plot_width |-> Num(12, 0), floor_height |-> Num(75, 1),
     paint_type |-> Str("distemper"), cement_type |-> Str("ppc")]

Buildings == {House, Shed}

MixChoices ==
    {[concrete_grade |-> Str("m20"), mortar_mix |-> Str("1:6")],
     [concrete_grade |-> Str("m25"), mortar_mix |-> Str("1:4")],
     [concrete_grade |-> Str("m30"), mortar_mix |-> Str("1:3")]}

InputSets ==
    {Merge(Merge(b, mx), [num_floors |-> Num(f, 0)]) :
        b \in Buildings, mx \in MixChoices, f \in 1..MaxFloors}

NoInputs == [k \in {} |-> Str("")]

\* a rate table as load_material_costs overlays it from a price sheet
SheetRates ==
    [cement_per_bag |-> Dec(38550, 2), sand_per_m3 |-> Dec(14255, 1),
     aggregate_per_m3 |-> Dec(98765, 2), steel_per_kg |-> Dec(7235, 2),
     brick_per_100 |-> Dec(6755, 1), tile_per_sqm |-> Dec(45525, 2),
     paint_per_liter |-> Dec(31275, 2), plaster_per_m3 |-> Dec(21505, 1)]

\* the tables MATERIAL_RATES may hold
RateTables == {default_rates, SheetRates}

(* Snapshots a caller of the engine may hand over directly: sections and   *)
(* keys may be missing, values need not have the precision                 *)
(* calculate_materials gives them, a leaf need not be a number.            *)

\* a snapshot without any section
SnapEmpty == EmptyDict

\* nothing but finishing, with no floor area
SnapBare ==
    [finishing |-> [flooring_area_sqft |-> Zero, paint_liters |-> Dec(25, 1)]]

\* small volumes, finer than the output precision, and a text leaf
SnapFine ==
    [concrete |-> [pcc_volume |-> Dec(4, 3), total_rcc |-> Dec(1255, 3),
                   grade |-> Str("m20")],
     cement |-> [total_bags |-> Whole(12)],
     sand |-> [concrete_sand_m3 |-> Dec(4, 2), brickwork_sand_m3 |-> Dec(205, 3),
               total_sand_kg |-> Dec(12825, 1)],
     aggregate |-> [concrete_aggregate_m3 |-> Dec(556, 3)],
     steel |-> [total_steel_kg |-> Dec(1049, 1)],
     masonry |-> [brick_quantity |-> Whole(1204), mortar_volume_m3 |-> Dec(239, 3)],
     finishing |-> [floor_tiles_qty |-> Whole(86), paint_liters |-> Dec(334, 2),
                    plaster_volume_m3 |-> Dec(425, 3),
                    flooring_area_sqft |-> Dec(365, 1),
                    flooring_area_m2 |-> Dec(3391, 3)]]

\* masses without volumes, a floor area of three decimals
SnapMass ==
    [sand |-> [total_sand_kg |-> Whole(3200)],
     aggregate |-> [concrete_aggregate_kg |-> Whole(1500)],
     steel |-> [total_steel_kg |-> Dec(5, 2)],
     finishing |-> [flooring_area_sqft |-> Dec(12345, 3)]]

Snapshots == {SnapEmpty, SnapBare, SnapFine, SnapMass}

---------------------------------------------------------------------------
(* generate_floor_plan_svg: the canvas, the outer boundary and the room    *)
(* rectangles of the two layouts.  The texts, the wall divider and the     *)
(* legend the SVG also carries are not modelled.                           *)

\* x - y for x >= y
RSub(x, y) ==
    RNorm([n |-> BSub(BMul(x.n, y.d), BMul(y.n, x.d)), d |-> BMul(x.d, y.d)])

RMax(x, y) == IF RLe(x, y) THEN y ELSE x

\* int(x) for x >= 0
Trunc(x) == [n |-> BDivMod(x.n, x.d).q, d |-> <<1>>]

LayoutTypes == {"layout1", "layout2"}

\* line 476
scale == Whole(3)

\* line 481
padding == Whole(30)

\* line 483
room_gap == Whole(25)

\* the canvas side that is not truncated to whole pixels
CanvasSideExact(plot_side, least) == RMax(RMul(ToFloat(plot_side), scale), least)

\* lines 477-478: max(int(plot_side * scale), least)
CanvasSide(plot_side, least) ==
    RMax(Trunc(RMul(ToFloat(plot_side), scale)), least)

\* lines 486-487
Usable(side) == RSub(side, RMul(Whole(2), padding))

\* a <rect> element
Rect(label, x, y, width, height) ==
    [label |-> label, x |-> x, y |-> y, width |-> width, height |-> height]

\* line 505
OuterWalls(width, height) ==
    Rect("Outer walls", padding, padding, Usable(width), Usable(height))

\* line 511
kitchen_width(usable_width) == RMul(RSub(usable_width, room_gap), Dec(28, 2))

\* the right side taking the gap as its own
rooms_widthWithGap(usable_width) ==
    RSub(usable_width, kitchen_width(usable_width))

\* line 514
rooms_width(usable_width) ==
    RSub(RSub(usable_width, kitchen_width(usable_width)), room_gap)

\* lines 515-516
bed1_height(usable_height) == RMul(RSub(usable_height, room_gap), Dec(48, 2))

bed2_height(usable_height) == RMul(RSub(usable_height, room_gap), Dec(48, 2))

\* rooms_width * share - room_gap/2
Share(usable_width, share) ==
    RSub(RMul(rooms_width(usable_width), share), RDiv(room_gap, Whole(2)))

\* padding + kitchen_width + room_gap
RightSideX(usable_width) == RAdd(RAdd(padding, kitchen_width(usable_width)), room_gap)

\* RightSideX + rooms_width * share + room_gap/2
AfterShare(usable_width, share) ==
    RAdd(RAdd(RightSideX(usable_width), RMul(rooms_width(usable_width), share)),
         RDiv(room_gap, Whole(2)))

\* padding + bed1_height + room_gap
LowerRowY(upper_height) == RAdd(RAdd(padding, upper_height), room_gap)

\* lines 519-569: the rooms of layout 1
Layout1Rooms(usable_width, usable_height) ==
    << Rect("KITCHEN", padding, padding,
            kitchen_width(usable_width), usable_height),
       Rect("BEDROOM 1", RightSideX(usable_width), padding,
            Share(usable_width, Dec(5, 1)), bed1_height(usable_height)),
       Rect("BEDROOM 2", AfterShare(usable_width, Dec(5, 1)), padding,
            Share(usable_width, Dec(5, 1)), bed1_height(usable_height)),
       Rect("MASTER BEDROOM", RightSideX(usable_width),
            LowerRowY(bed1_height(usable_height)),
            Share(usable_width, Dec(65, 2)), bed2_height(usable_height)),
       Rect("BATHROOM", AfterShare(usable_width, Dec(65, 2)),
            LowerRowY(bed1_height(usable_height)),
            Share(usable_width, Dec(35, 2)), bed2_height(usable_height)) >>

\* usable_width - 2*room_gap
Net(usable_width) == RSub(usable_width, RMul(Whole(2), room_gap))

\* line 573
bed_width(usable_width) == RDiv(Net(usable_width), Whole(3))

\* line 574
bath_width(usable_width) == RDiv(Net(usable_width), Whole(4))

\* line 575
kitchen_width_2(usable_width) == RMul(Net(usable_width), Dec(35, 2))

\* lines 578-579
top_height(usable_height) == RMul(RSub(usable_height, room_gap), Dec(5, 1))

bottom_height(usable_height) == RMul(RSub(usable_height, room_gap), Dec(5, 1))

\* usable_width - a - b - 2*room_gap
Rest(usable_width, a, b) ==
    RSub(RSub(RSub(usable_width, a), b), RMul(Whole(2), room_gap))

\* padding + a + b + 2*room_gap
Past(a, b) == RAdd(RAdd(RAdd(padding, a), b), RMul(Whole(2), room_gap))

\* lines 581-626: the rooms of layout 2
Layout2Rooms(usable_width, usable_height) ==
    << Rect("BEDROOM 1", padding, padding,
            bed_width(usable_width), top_height(usable_height)),
       Rect("BEDROOM 2", RAdd(RAdd(padding, bed_width(usable_width)), room_gap),
            padding, bed_width(usable_width), top_height(usable_height)),
       Rect("MASTER BEDROOM",
            Past(bed_width(usable_width), bed_width(usable_width)), padding,
            Rest(usable_width, bed_width(usable_width), bed_width(usable_width)),
            top_height(usable_height)),
       Rect("BATH", padding, LowerRowY(top_height(usable_height)),
            bath_width(usable_width), bottom_height(usable_height)),
       Rect("KITCHEN", RAdd(RAdd(padding, bath_width(usable_width)), room_gap),
            LowerRowY(top_height(usable_height)),
            kitchen_width_2(usable_width), bottom_height(usable_height)),
       Rect("LIVING DINING",
            Past(bath_width(usable_width), kitchen_width_2(usable_width)),
            LowerRowY(top_height(usable_height)),
            Rest(usable_width, bath_width(usable_width),
                 kitchen_width_2(usable_width)),
            bottom_height(usable_height)) >>

\* lines 471-473: every subscript finds its key, float() and int() succeed
PlanConverts(inputs) ==
    /\ {"plot_length", "plot_width", "num_floors"} \subseteq DOMAIN inputs
    /\ CanFloat(inputs["plot_length"])
    /\ CanFloat(inputs["plot_width"])
    /\ CanInt(inputs["num_floors"])

\* lines 489-626 on a canvas of the given size
FloorPlan(width, height, layout_type) ==
    [width |-> width,
     height |-> height,
     outer |-> OuterWalls(width, height),
     rooms |-> IF layout_type = "layout1"
               THEN Layout1Rooms(Usable(width), Usable(height))
               ELSE Layout2Rooms(Usable(width), Usable(height))]

generate_floor_plan_svg(inputs, layout_type) ==
    IF ~PlanConverts(inputs) THEN Raised
    ELSE FloorPlan(CanvasSide(inputs["plot_length"], Whole(600)),
                   CanvasSide(inputs["plot_width"], Whole(500)), layout_type)

---------------------------------------------------------------------------
(* cost_loader.load_material_costs.  The workbook is what the loader sees  *)
(* of it: whether openpyxl imports, whether the file exists, whether       *)
(* reading it raises, and the rows of the sheet after the header.  A row   *)
(* holds the material name as the set of words of its lower-cased text     *)
(* (no words for an empty or blank cell) and the cost cell: None, a        *)
(* number, or a text (Num for a numeral, Str otherwise).  A row shorter    *)
(* than three cells is a row whose cost cell is None.                      *)

\* cost_loader.py lines 31-40
loader_default_rates ==
    [cement_per_bag |-> Dec(4200, 1), sand_per_m3 |-> Dec(12000, 1),
     aggregate_per_m3 |-> Dec(9000, 1), steel_per_kg |-> Dec(650, 1),
     brick_per_100 |-> Dec(3500, 1), tile_per_sqm |-> Dec(3000, 1),
     paint_per_liter |-> Dec(5000, 1), plaster_per_m3 |-> Dec(20000, 1)]

SheetRow(name, cost) == [name |-> name, cost |-> cost]

\* bool(cell)
CellTruthy(cell) ==
    /\ cell # None
    /\ IsNumber(cell) => ~IsZero(cell)
    /\ cell # Str("")

\* lines 80-83: float(row[2]) if row[2] else None, None when float raises
CostOf(cell) ==
    IF ~CellTruthy(cell) THEN None
    ELSE IF IsNumber(cell) THEN cell
    ELSE IF CanFloat(cell) THEN ToFloat(cell)
    ELSE None

\* lines 89-104: the rate key the words of a material name select
RateKeyOf(words) ==
    CASE "cement" \in words -> "cement_per_bag"
      [] "cement" \notin words /\ "sand" \in words -> "sand_per_m3"
      [] {"cement", "sand"} \cap words = {}
            /\ {"aggregate", "gravel", "chips"} \cap words # {} -> "aggregate_per_m3"
      [] {"cement", "sand", "aggregate", "gravel", "chips"} \cap words = {}
            /\ {"steel", "rebar", "reinforcement"} \cap words # {} -> "steel_per_kg"
      [] {"cement", "sand", "aggregate", "gravel", "chips",
          "steel", "rebar", "reinforcement"} \cap words = {}
            /\ "brick" \in words -> "brick_per_100"
      [] {"cement", "sand", "aggregate", "gravel", "chips",
          "steel", "rebar", "reinforcement", "brick"} \cap words = {}
            /\ {"tile", "flooring"} \cap words # {} -> "tile_per_sqm"
      [] {"cement", "sand", "aggregate", "gravel", "chips",
          "steel", "rebar", "reinforcement", "brick", "tile", "flooring"}
             \cap words = {}
            /\ {"paint", "coating"} \cap words # {} -> "paint_per_liter"
      [] {"cement", "sand", "aggregate", "gravel", "chips",
          "steel", "rebar", "reinforcement", "brick", "tile", "flooring",
          "paint", "coating"} \cap words = {}
            /\ {"plaster", "finish"} \cap words # {} -> "plaster_per_m3"
      [] OTHER -> "none"

\* lines 75-104: rates after one row
ParseRow(rates, row) ==
    IF row.name = {} \/ CostOf(row.cost) = None
       \/ RateKeyOf(row.name) = "none"
    THEN rates
    ELSE Merge(rates, [k \in {RateKeyOf(row.name)} |-> CostOf(row.cost)])

\* lines 74-104: rates after the rows from the i-th on
RECURSIVE ParseRows(_, _, _)
ParseRows(rates, rows, i) ==
    IF i > Len(rows) THEN rates
    ELSE ParseRows(ParseRow(rates, rows[i]), rows, i + 1)

\* a loader that collects the parsed rows only
ParsedFromNothing(rows) == ParseRows(EmptyDict, rows, 1)

\* lines 67-110: rates = dict(default_rates), then the rows
Parsed(rows) == ParseRows(loader_default_rates, rows, 1)

\* lines 42-117
load_material_costs(workbook) ==
    IF ~workbook.HAVE_OPENPYXL THEN loader_default_rates
    ELSE IF ~workbook.exists THEN loader_default_rates
    ELSE IF workbook.raises THEN loader_default_rates
    ELSE Parsed(workbook.rows)

\* a get_rates_by_plan that adjusts base_rates itself and returns it
GetRatesInPlace(h, base_rates, plan_type) ==
    [heap |-> [h EXCEPT ![base_rates] = ScaledRates(h[base_rates], plan_type)],
     ret |-> base_rates]

\* cost_loader.py lines 120-144: the heap after the call (adjusted is a new
\* dict) and the address returned
get_rates_by_plan(h, base_rates, plan_type) ==
    [heap |-> Append(h, ScaledRates(h[base_rates], plan_type)),
     ret |-> NewAddr(h)]

---------------------------------------------------------------------------
(* The engine as estimate() drives it (app.py lines 93-109): the base      *)
(* snapshot, then for economy, standard and premium in that order the      *)
(* adjusted snapshot, its cost and its BOQ.                                *)

NoResult == [absent |-> TRUE]

PlanOrder == <<"economy", "standard", "premium">>

\* the plans estimate() has finished before it starts on plan p
Before(p) ==
    {PlanOrder[i] : i \in {i \in 1..3 : \E j \in (i + 1)..3 : PlanOrder[j] = p}}

\* estimate() has reached plan p
Turn(p) == \A q \in Before(p) : boq[q] # <<>>

\* the heap holding the process-wide rate table, or nothing for None
InitRates(table) ==
    \/ /\ heap = <<>>
       /\ MATERIAL_RATES = 0
    \/ \E t \in table :
          /\ heap = <<t>>
          /\ MATERIAL_RATES = 1

InitPlans ==
    /\ materials = [p \in Plans |-> 0]
    /\ costs = [p \in Plans |-> NoResult]
    /\ boq = [p \in Plans |-> <<>>]
    /\ layout_svg = [l \in LayoutTypes |-> NoResult]
    /\ adjusted = [p \in Plans |-> 0]

\* estimate() has collected a form and computed nothing yet
InitForm ==
    /\ form \in InputSets
    /\ pc = "validate"
    /\ InitRates(RateTables)
    /\ base_materials = 0

\* a caller of the engine holds a snapshot of its own, the dict at the end
\* of the heap
InitSnapshot(snapshots, tables) ==
    /\ form = NoInputs
    /\ pc = "compute"
    /\ \E s \in snapshots, t \in {None} \cup tables :
          \E st \in {StoreMaterials(IF t = None THEN <<>> ELSE <<t>>, s)} :
             /\ heap = st.heap
             /\ MATERIAL_RATES = IF t = None THEN 0 ELSE 1
             /\ base_materials = st.ret

Init ==
    /\ InitForm \/ InitSnapshot(Snapshots, RateTables)
    /\ InitPlans

\* app.py lines 55-91: the page the validation answers with, if any
Validates(inputs) ==
    /\ \A f \in RequiredFields : f \in DOMAIN inputs /\ inputs[f] # Str("")
    /\ \A f \in numeric_fields : CanFloat(inputs[f]) /\ inputs[f].m > 0
    /\ Text(inputs["structure_type"]) \in valid_structures
    /\ Text(inputs["footing_type"]) \in valid_footings
    /\ Text(inputs["concrete_grade"]) \in valid_grades
    /\ Text(inputs["mortar_mix"]) \in valid_mortars

\* app.py lines 54-91
Validate ==
    /\ pc = "validate"
    /\ pc' = IF Validates(form) THEN "compute" ELSE "rejected"
    /\ UNCHANGED <<heap, form, adjusted, layout_svg, MATERIAL_RATES,
                   base_materials, materials, costs, boq>>

\* app.py line 94, and lines 131-132 when calculate_materials raises
CalculateMaterials ==
    /\ pc = "compute"
    /\ base_materials = 0
    /\ \E r \in {calculate_materials(form)} :
          IF r = Raised
          THEN /\ pc' = "failed"
               /\ UNCHANGED <<heap, base_materials>>
          ELSE /\ pc' = pc
               /\ \E st \in {StoreMaterials(heap, r)} :
                     /\ heap' = st.heap
                     /\ base_materials' = st.ret
    /\ UNCHANGED <<form, adjusted, layout_svg, MATERIAL_RATES,
                   materials, costs, boq>>

\* app.py lines 97, 102, 107
GeneratePlanVariants(p) ==
    /\ base_materials # 0
    /\ materials[p] = 0
    /\ \E r \in {generate_plan_variants(heap, base_materials, p)} :
          /\ heap' = r.heap
          /\ materials' = [materials EXCEPT ![p] = r.ret]
    /\ UNCHANGED <<pc, form, adjusted, layout_svg, MATERIAL_RATES,
                   base_materials, costs, boq>>

\* app.py lines 98, 103, 108
CalculateCost(p) ==
    /\ materials[p] # 0
    /\ costs[p] = NoResult
    /\ boq[p] = <<>>
    /\ \E r \in {calculate_cost(heap, materials[p], p, MATERIAL_RATES)} :
          /\ heap' = r.heap
          /\ costs' = [costs EXCEPT ![p] = r.ret]
    /\ UNCHANGED <<pc, form, adjusted, layout_svg, MATERIAL_RATES,
                   base_materials, materials, boq>>

\* app.py lines 99, 104, 109
GenerateBoq(p) ==
    /\ costs[p] \notin {NoResult, Raised}
    /\ boq[p] = <<>>
    /\ boq' = [boq EXCEPT ![p] = generate_boq(heap, Deref(heap, materials[p]), costs[p])]
    /\ UNCHANGED <<pc, heap, form, adjusted, layout_svg, MATERIAL_RATES,
                   base_materials, materials, costs>>

\* generate_boq called with a cost dict that has no entries
GenerateBoqBare(p) ==
    /\ form = NoInputs
    /\ materials[p] # 0
    /\ costs[p] = NoResult
    /\ boq[p] = <<>>
    /\ boq' = [boq EXCEPT ![p] = generate_boq(heap, Deref(heap, materials[p]), EmptyDict)]
    /\ UNCHANGED <<pc, heap, form, adjusted, layout_svg, MATERIAL_RATES,
                   base_materials, materials, costs>>

\* estimate() has the three BOQs of the form
Estimated == form # NoInputs /\ \A p \in Plans : boq[p] # <<>>

\* app.py lines 112-113, and lines 131-132 when the call raises
GenerateFloorPlanSvg(layout_type) ==
    /\ pc = "compute"
    /\ layout_svg[layout_type] = NoResult
    /\ \E r \in {generate_floor_plan_svg(form, layout_type)} :
          /\ layout_svg' = [layout_svg EXCEPT ![layout_type] = r]
          /\ pc' = IF r = Raised THEN "failed" ELSE pc
    /\ UNCHANGED <<heap, form, adjusted, MATERIAL_RATES,
                   base_materials, materials, costs, boq>>

Next ==
    \/ Validate
    \/ CalculateMaterials
    \/ \E p \in Plans : Turn(p) /\ GeneratePlanVariants(p)
    \/ \E p \in Plans : CalculateCost(p)
    \/ \E p \in Plans : GenerateBoq(p)
    \/ \E p \in Plans : GenerateBoqBare(p)
    \/ \E l \in LayoutTypes : Estimated /\ GenerateFloorPlanSvg(l)

Spec == Init /\ [][Next]_vars

---------------------------------------------------------------------------
(* The snapshots and results the state holds.                              *)

\* the base snapshot as a dict of dicts
BaseSnapshot == Deref(heap, base_materials)

\* the adjusted snapshot of plan p
Variant(p) == Deref(heap, materials[p])

\* calculate_materials has returned the base snapshot for the form
Calculated == form # NoInputs /\ base_materials # 0

\* calculate_cost has returned a result for plan p
Costed(p) == costs[p] \notin {NoResult, Raised}

---------------------------------------------------------------------------
(* A caller that asks for the variants of one base snapshot in any order   *)
(* and then writes into the snapshots it got back.                         *)

\* a value no snapshot holds
Edited == Whole(999999)

\* variant[s][key] = Edited on the variant of plan p
ModifyVariant(p, s, key) ==
    /\ materials[p] # 0
    /\ s \in DOMAIN heap[materials[p]]
    /\ key \in DOMAIN heap[heap[materials[p]][s].ref]
    /\ heap[heap[materials[p]][s].ref][key] # Edited
    /\ heap' = [heap EXCEPT ![heap[materials[p]][s].ref][key] = Edited]
    /\ UNCHANGED <<pc, form, adjusted, layout_svg, MATERIAL_RATES,
                   base_materials, materials, costs, boq>>

\* one section with two leaves, two sections with one leaf each
AliasSnapshots ==
    {SnapBare,
     [sand |-> [total_sand_kg |-> Whole(3200)], steel |-> [total_steel_kg |-> Dec(5, 2)]]}

SectionNames == {SectionOrder[i] : i \in 1..Len(SectionOrder)}

LeafNames == UNION {UNION {DOMAIN s[k] : k \in DOMAIN s} : s \in AliasSnapshots}

InitAlias == InitSnapshot(AliasSnapshots, {}) /\ InitPlans

NextAlias ==
    \/ \E p \in Plans : GeneratePlanVariants(p)
    \/ \E p \in Plans, s \in SectionNames, key \in LeafNames : ModifyVariant(p, s, key)

SpecAlias == InitAlias /\ [][NextAlias]_vars

---------------------------------------------------------------------------
(* A caller that prices snapshots with rate tables of its own making:      *)
(* tables that lack rate keys, down to the table without any key.          *)

\* the price-sheet table without its last key, a table of one key, the
\* table without keys
ShortTables ==
    {[k \in RateKeys \ {"plaster_per_m3"} |-> SheetRates[k]],
     [cement_per_bag |-> Dec(4000, 1)],
     EmptyDict}

InitRated == InitSnapshot(Snapshots, ShortTables \cup {SheetRates}) /\ InitPlans

NextRated ==
    \/ \E p \in Plans : GeneratePlanVariants(p)
    \/ \E p \in Plans : CalculateCost(p)
    \/ \E p \in Plans : GenerateBoq(p)

SpecRated == InitRated /\ [][NextRated]_vars

---------------------------------------------------------------------------
(* Requests as a browser or any other client may post them: the scenario   *)
(* of the specification with one field left out, left empty or changed.    *)

Scenario == Merge(Merge(House, [concrete_grade |-> Str("m20"), mortar_mix |-> Str("1:6")]),
                  [num_floors |-> Num(2, 0)])

\* a text that is no number, zero, a number with a point, an upper-case grade
OddValues == {Str(""), Str("abc"), Num(0, 0), Num(25, 1), Str("M25")}

OddFields ==
    {"num_floors", "num_footings", "tile_size", "paint_coats", "footing_length",
     "plot_length", "structure_type", "concrete_grade", "mortar_mix", "paint_type"}

\* inputs without the key k
Without(inputs, k) == [f \in DOMAIN inputs \ {k} |-> inputs[f]]

RequestForms ==
    {Scenario}
        \cup {[Scenario EXCEPT ![f] = v] : f \in OddFields, v \in OddValues}
        \cup {Without(Scenario, f) : f \in OddFields}

InitRequest ==
    /\ form \in RequestForms
    /\ pc = "validate"
    /\ InitRates({})
    /\ base_materials = 0
    /\ InitPlans

NextRequest ==
    \/ Validate
    \/ CalculateMaterials
    \/ \E p \in Plans : Turn(p) /\ GeneratePlanVariants(p)
    \/ \E p \in Plans : CalculateCost(p)
    \/ \E p \in Plans : GenerateBoq(p)

SpecRequest == InitRequest /\ [][NextRequest]_vars

---------------------------------------------------------------------------
(* A caller that hands calculate_materials an inputs dict nothing has      *)
(* validated.                                                              *)

InitDirect ==
    /\ form \in RequestForms
    /\ pc = "compute"
    /\ InitRates({})
    /\ base_materials = 0
    /\ InitPlans

NextDirect == CalculateMaterials

SpecDirect == InitDirect /\ [][NextDirect]_vars

---------------------------------------------------------------------------
(* A caller that runs the three plan pipelines as estimate() does and, at  *)
(* any moment after a plan has its BOQ, prices that plan again.            *)

MaxCalls == 5

\* the calls of calculate_cost so far: each leaves default_rates and rates
CostCalls ==
    Cardinality({a \in 1..Len(heap) : a # MATERIAL_RATES /\ DOMAIN heap[a] = RateKeys})
        \div 2

\* generate_boq(materials, calculate_cost(materials, plan, rates)) once more
PriceAgain(p) ==
    /\ Costed(p)
    /\ boq[p] # <<>>
    /\ CostCalls < MaxCalls
    /\ \E r \in {calculate_cost(heap, materials[p], p, MATERIAL_RATES)} :
          /\ heap' = r.heap
          /\ costs' = [costs EXCEPT ![p] = r.ret]
          /\ boq' = [boq EXCEPT ![p] =
                        generate_boq(r.heap, Deref(r.heap, materials[p]), r.ret)]
    /\ UNCHANGED <<pc, form, adjusted, layout_svg, MATERIAL_RATES,
                   base_materials, materials>>

EngineSnapshots == {SnapFine, SnapMass}

InitEngine == InitSnapshot(EngineSnapshots, {SheetRates}) /\ InitPlans

NextEngine ==
    \/ \E p \in Plans : Turn(p) /\ GeneratePlanVariants(p)
    \/ \E p \in Plans : CalculateCost(p)
    \/ \E p \in Plans : GenerateBoq(p)
    \/ \E p \in Plans : PriceAgain(p)

SpecEngine == InitEngine /\ [][NextEngine]_vars

---------------------------------------------------------------------------
(* A caller that runs the three plan pipelines on one base snapshot and    *)
(* one rate table concurrently: their steps in any order and interleaving. *)

InitParallel ==
    /\ form = NoInputs
    /\ pc = "compute"
    /\ \E st \in {StoreMaterials(<<SheetRates>>, SnapMass)} :
          /\ heap = st.heap
          /\ MATERIAL_RATES = 1
          /\ base_materials = st.ret
    /\ InitPlans

NextParallel ==
    \/ \E p \in Plans : GeneratePlanVariants(p)
    \/ \E p \in Plans : CalculateCost(p)
    \/ \E p \in Plans : GenerateBoq(p)

SpecParallel == InitParallel /\ [][NextParallel]_vars

---------------------------------------------------------------------------
(* A caller that asks generate_floor_plan_svg for both layouts of a plot,  *)
(* in either order.  The plot sides run over the multiples of 33.5 ft, so  *)
(* that canvases at the least size, above it, and cut to whole pixels all  *)
(* occur.                                                                  *)

MaxPlot == 8

PlotSides == {Num(335 * k, 1) : k \in 0..MaxPlot}

PlotForms ==
    {[Scenario EXCEPT !["plot_length"] = a, !["plot_width"] = b] :
        a \in PlotSides, b \in PlotSides}

InitPlan ==
    /\ form \in PlotForms
    /\ pc = "compute"
    /\ InitRates({})
    /\ base_materials = 0
    /\ InitPlans

NextPlan == \E l \in LayoutTypes : GenerateFloorPlanSvg(l)

SpecPlan == InitPlan /\ [][NextPlan]_vars

---------------------------------------------------------------------------
(* A caller that hands calculate_materials forms of every grade, among     *)
(* them texts that name no grade and a grade in upper case, and of every   *)
(* mortar mix.                                                             *)

GradeTexts == {Str("m20"), Str("m25"), Str("m30"), Str("M30"), Str("abc")}

MortarTexts == {Str("1:6"), Str("1:4"), Str("1:3")}

GradeForms ==
    {Merge(Merge(b, [concrete_grade |-> g, mortar_mix |-> mx]),
           [num_floors |-> Num(f, 0)]) :
        b \in Buildings, g \in GradeTexts, mx \in MortarTexts, f \in 1..MaxFloors}

InitGrades ==
    /\ form \in GradeForms
    /\ pc = "compute"
    /\ InitRates({})
    /\ base_materials = 0
    /\ InitPlans

NextGrades == CalculateMaterials

SpecGrades == InitGrades /\ [][NextGrades]_vars

---------------------------------------------------------------------------
(* estimate()'s three pipelines on quantities small enough for the         *)
(* re-rounding of the adjuster to weigh against the plan factors: the form *)
(* of a very small building, and snapshots with a single small quantity.   *)

\* a valid form: every number is positive, every choice is an option
Kennel ==
    Merge(Shed,
        [num_footings |-> Num(4, 0), footing_length |-> Num(2, 0),
         footing_width |-> Num(8, 0), footing_depth |-> Num(1, 1),
         pcc_thickness |-> Num(3, 0), num_columns |-> Num(1, 0),
         column_length |-> Num(3, 0), column_width |-> Num(3, 0),
         column_height |-> Num(1, 0), total_beam_length |-> Num(3, 0),
         beam_width |-> Num(8, 0), beam_depth |-> Num(5, 0),
         slab_area |-> Num(1, 1), slab_thickness |-> Num(1, 0),
         external_wall_length |-> Num(8, 0), internal_wall_length |-> Num(1, 1),
         wall_thickness |-> Num(1, 0), wall_height |-> Num(5, 1),
         flooring_area |-> Num(2, 0), num_floors |-> Num(1, 0),
         concrete_grade |-> Str("m20"), mortar_mix |-> Str("1:6")])

\* seven bags of cement and nothing else
SnapBags == [cement |-> [total_bags |-> Whole(7)]]

\* a sand volume that premium rounds down
SnapThinSand == [sand |-> [concrete_sand_m3 |-> Dec(36, 2)]]

\* a steel mass that premium rounds down
SnapLightSteel == [steel |-> [total_steel_kg |-> Dec(36, 2)]]

TierSnapshots == {SnapBags, SnapThinSand, SnapLightSteel}

InitTiers ==
    /\ \/ /\ form = Kennel
          /\ pc = "compute"
          /\ InitRates(RateTables)
          /\ base_materials = 0
       \/ InitSnapshot(TierSnapshots, RateTables)
    /\ InitPlans

NextTiers ==
    \/ CalculateMaterials
    \/ \E p \in Plans : Turn(p) /\ GeneratePlanVariants(p)
    \/ \E p \in Plans : CalculateCost(p)
    \/ \E p \in Plans : GenerateBoq(p)

SpecTiers == InitTiers /\ [][NextTiers]_vars

---------------------------------------------------------------------------
(* app.py as it starts: MATERIAL_RATES is what load_material_costs         *)
(* returns for the workbook it finds, and the engine prices a snapshot     *)
(* with it.                                                                *)

MaxRows == 2

\* rows the loader overlays, among them a second cement row, a name with
\* the words of two materials, and a numeral typed as text
GoodRows ==
    {SheetRow({"cement", "opc"}, Dec(4005, 1)), SheetRow({"cement", "sand"}, Whole(410)),
     SheetRow({"river", "sand"}, Num(1300, 0)), SheetRow({"gravel"}, Dec(9505, 1)),
     SheetRow({"steel", "rebar"}, Whole(70)), SheetRow({"floor", "tile"}, Num(0, 0))}

\* rows the loader skips: no name, a name of no material, an empty cost
\* text, no cost, a cost of 0, a cost that is no number
SkippedRows ==
    {SheetRow({}, Whole(5)), SheetRow({"wood"}, Whole(5)), SheetRow({"sand"}, Str("")),
     SheetRow({"brick"}, None), SheetRow({"paint"}, Zero), SheetRow({"plaster"}, Str("n/a"))}

RECURSIVE SeqsUpTo(_, _)
SeqsUpTo(S, n) ==
    IF n = 0 THEN {<<>>}
    ELSE SeqsUpTo(S, n - 1)
            \cup {Append(s, x) : s \in SeqsUpTo(S, n - 1), x \in S}

Sheets == SeqsUpTo(GoodRows \cup SkippedRows, MaxRows)

Workbooks ==
    {[HAVE_OPENPYXL |-> FALSE, exists |-> FALSE, raises |-> FALSE, rows |-> <<>>],
     [HAVE_OPENPYXL |-> TRUE, exists |-> FALSE, raises |-> FALSE, rows |-> <<>>],
     [HAVE_OPENPYXL |-> TRUE, exists |-> TRUE, raises |-> TRUE, rows |-> <<>>]}
        \cup {[HAVE_OPENPYXL |-> TRUE, exists |-> TRUE, raises |-> FALSE, rows |-> s] :
                 s \in Sheets}

\* app.py line 8, then a caller's snapshot
InitLoaded ==
    /\ form = NoInputs
    /\ pc = "compute"
    /\ \E workbook \in Workbooks :
          \E st \in {StoreMaterials(<<load_material_costs(workbook)>>, SnapFine)} :
             /\ heap = st.heap
             /\ MATERIAL_RATES = 1
             /\ base_materials = st.ret
    /\ InitPlans

NextLoaded ==
    \/ \E p \in Plans : Turn(p) /\ GeneratePlanVariants(p)
    \/ \E p \in Plans : CalculateCost(p)
    \/ \E p \in Plans : GenerateBoq(p)

SpecLoaded == InitLoaded /\ [][NextLoaded]_vars

---------------------------------------------------------------------------
(* A caller that scales a rate table both ways: it prices one snapshot     *)
(* with calculate_cost under a plan value and asks get_rates_by_plan for   *)
(* the rates of the same plan value, for one plan value after the other.   *)

\* the plan values handed over, one of them no plan's name
PlanValues == <<"economy", "standard", "premium", "deluxe">>

PlanValueSet == {PlanValues[i] : i \in DOMAIN PlanValues}

\* non-empty tables: complete ones, among them tables the loader parsed, and
\* tables that lack required keys
ScalingTables ==
    {default_rates, SheetRates}
        \cup {Parsed(<<r>>) : r \in GoodRows}
        \cup (ShortTables \ {EmptyDict})

InitScaling ==
    /\ form = NoInputs
    /\ pc = "compute"
    /\ \E t \in ScalingTables :
          \E st \in {StoreMaterials(<<t>>, SnapFine)} :
             /\ heap = st.heap
             /\ MATERIAL_RATES = 1
             /\ base_materials = st.ret
             /\ materials = [p \in PlanValueSet |-> st.ret]
    /\ costs = [p \in PlanValueSet |-> NoResult]
    /\ boq = [p \in PlanValueSet |-> <<>>]
    /\ adjusted = [p \in PlanValueSet |-> 0]
    /\ layout_svg = [l \in LayoutTypes |-> NoResult]

\* the caller has reached the i-th plan value
ScalingTurn(i) ==
    \A j \in 1..(i - 1) :
        costs[PlanValues[j]] # NoResult /\ adjusted[PlanValues[j]] # 0

\* adjusted = get_rates_by_plan(MATERIAL_RATES, p)
GetRatesByPlan(p) ==
    /\ adjusted[p] = 0
    /\ \E r \in {get_rates_by_plan(heap, MATERIAL_RATES, p)} :
          /\ heap' = r.heap
          /\ adjusted' = [adjusted EXCEPT ![p] = r.ret]
    /\ UNCHANGED <<pc, form, layout_svg, MATERIAL_RATES,
                   base_materials, materials, costs, boq>>

NextScaling ==
    \/ \E i \in DOMAIN PlanValues : ScalingTurn(i) /\ CalculateCost(PlanValues[i])
    \/ \E i \in DOMAIN PlanValues : ScalingTurn(i) /\ GetRatesByPlan(PlanValues[i])

SpecScaling == InitScaling /\ [][NextScaling]_vars

---------------------------------------------------------------------------
(* One estimate request from the form to the page it answers with, in      *)
(* app.py (MATERIAL_RATES a loaded table) and in app_exe.py (no table      *)
(* given to calculate_cost).  pc ends as "rejected" (a 400 page), "failed" *)
(* (the 500 page of the except clause) or "rendered" (result.html).  The   *)
(* templates are not part of the sources: rendering result.html either     *)
(* returns the page or raises into the except clause.                      *)

InitEstimate ==
    /\ form \in RequestForms
    /\ pc = "validate"
    /\ InitRates({SheetRates})
    /\ base_materials = 0
    /\ InitPlans

\* estimate() is past the validation and has not returned
Running == pc = "compute"

\* a render_template that is reached once the plans have their BOQs
RenderReadyBeforeLayouts == Estimated

\* app.py lines 112-115: both layouts are drawn when render_template is
\* reached
RenderReady == \A l \in LayoutTypes : layout_svg[l] \notin {NoResult, Raised}

\* app.py lines 115-129, and lines 131-132 when rendering raises
RenderTemplate ==
    /\ Running
    /\ RenderReady
    /\ pc' \in {"rendered", "failed"}
    /\ UNCHANGED <<heap, form, adjusted, layout_svg, MATERIAL_RATES,
                   base_materials, materials, costs, boq>>

\* app.py lines 112-113 in their order
LayoutTurn(l) == l = "layout2" => layout_svg["layout1"] # NoResult

NextEstimate ==
    \/ Validate
    \/ CalculateMaterials
    \/ \E p \in Plans : Running /\ Turn(p) /\ GeneratePlanVariants(p)
    \/ \E p \in Plans : Running /\ CalculateCost(p)
    \/ \E p \in Plans : Running /\ GenerateBoq(p)
    \/ \E l \in LayoutTypes : Estimated /\ LayoutTurn(l) /\ GenerateFloorPlanSvg(l)
    \/ RenderTemplate

\* estimate() stands before a call of the engine: every stage function
\* yields a result or raises, so that a stage can be taken exactly when its
\* turn has come
StagePending ==
    /\ Running
    /\ \/ base_materials = 0
       \/ \E p \in Plans : Turn(p) /\ materials[p] = 0
       \/ \E p \in Plans : materials[p] # 0 /\ costs[p] = NoResult
       \/ \E p \in Plans : Costed(p) /\ boq[p] = <<>>
       \/ \E l \in LayoutTypes :
             Estimated /\ LayoutTurn(l) /\ layout_svg[l] = NoResult

\* estimate() runs in one thread from its first line to a return: where it
\* stands before a step, it takes the step.  For the calls of the engine
\* the weak fairness of the step is written with the condition under which
\* the step can be taken.
HandlerRuns ==
    /\ WF_vars(Validate)
    /\ WF_vars(RenderTemplate)
    /\ []<>(~StagePending) \/ []<><<NextEstimate>>_vars

SpecEstimate == InitEstimate /\ [][NextEstimate]_vars /\ HandlerRuns

---------------------------------------------------------------------------
(* C1.  For every valid InputSet the snapshot calculate_materials returns  *)
(* has cement.total_bags equal to the sum of the three bag counts, and     *)
(* total_rcc, total_steel_kg and total_sand_kg within 0.025 m3, 0.25 kg    *)
(* and 0.2 kg of the sum of their rounded component fields.                *)

SumOfBags(cement) ==
    RAdd(RAdd(cement.for_concrete, cement.for_mortarbrickwork), cement.for_plaster)

SumOfRcc(concrete) ==
    RAdd(RAdd(RAdd(concrete.footing_rcc, concrete.column_rcc), concrete.beam_rcc),
         concrete.slab_rcc)

SumOfSteel(steel) ==
    RAdd(RAdd(RAdd(steel.footing_steel_kg, steel.column_steel_kg), steel.beam_steel_kg),
         steel.slab_steel_kg)

SumOfSand(sand) ==
    RAdd(RAdd(sand.concrete_sand_kg, sand.brickwork_sand_kg), sand.plaster_sand_kg)

TotalsAreSums(m) ==
    /\ m.cement.total_bags = SumOfBags(m.cement)
    /\ RWithin(m.concrete.total_rcc, SumOfRcc(m.concrete), Dec(25, 3))
    /\ RWithin(m.steel.total_steel_kg, SumOfSteel(m.steel), Dec(25, 2))
    /\ RWithin(m.sand.total_sand_kg, SumOfSand(m.sand), Dec(2, 1))

C1_TotalsAreSums == Calculated => TotalsAreSums(BaseSnapshot)

\* a snapshot whose total differs from the sum of its rounded components
C1_Witness ==
    /\ Calculated
    /\ BaseSnapshot.cement.total_bags # Zero
    /\ \/ BaseSnapshot.concrete.total_rcc # SumOfRcc(BaseSnapshot.concrete)
       \/ BaseSnapshot.steel.total_steel_kg # SumOfSteel(BaseSnapshot.steel)
       \/ BaseSnapshot.sand.total_sand_kg # SumOfSand(BaseSnapshot.sand)

---------------------------------------------------------------------------
(* C2.  As claimed: the total_material_cost calculate_cost returns equals  *)
(* the sum of the 8 itemized_costs it returns.                             *)

C2_TotalIsSumOfItemized ==
    \A p \in Plans :
        Costed(p) => costs[p].total_material_cost = SumValues(costs[p].itemized_costs)

(* C2, amended.  The total is rounded from the unrounded sum, the          *)
(* itemized costs are rounded one by one: the returned total is within     *)
(* 0.045 of the sum of the 8 returned itemized_costs.                      *)

C2_TotalNearSumOfItemized ==
    \A p \in Plans :
        Costed(p) => RWithin(costs[p].total_material_cost,
                             SumValues(costs[p].itemized_costs), Dec(45, 3))

\* a result whose total is not the sum of its itemized costs
C2_Witness ==
    \E p \in Plans :
        /\ Costed(p)
        /\ ~IsZero(costs[p].total_material_cost)
        /\ costs[p].total_material_cost # SumValues(costs[p].itemized_costs)

---------------------------------------------------------------------------
(* C3.  As claimed: cost_per_sqft is null exactly when the snapshot's      *)
(* finishing.flooring_area_sqft is 0, and otherwise equals the returned    *)
(* total_material_cost divided by flooring_area_sqft.                      *)

\* the floor area calculate_cost read from the snapshot of plan p
FloorArea(p) == Qty(Variant(p), "finishing", "flooring_area_sqft")

C3_CostPerSqftIsQuotient ==
    \A p \in Plans :
        Costed(p) =>
            IF IsZero(FloorArea(p)) THEN costs[p].cost_per_sqft = None
            ELSE /\ costs[p].cost_per_sqft # None
                 /\ REq(costs[p].cost_per_sqft,
                        RDiv(costs[p].total_material_cost, FloorArea(p)))

(* C3, amended.  cost_per_sqft is null exactly when the floor area is 0    *)
(* (or absent); otherwise it is the quotient rounded to 2 decimals, taken  *)
(* from the unrounded total: cost_per_sqft times the area is within        *)
(* 0.005 * area + 0.005 of the returned total_material_cost.               *)

C3_CostPerSqftNearQuotient ==
    \A p \in Plans :
        Costed(p) =>
            IF IsZero(FloorArea(p)) THEN costs[p].cost_per_sqft = None
            ELSE /\ costs[p].cost_per_sqft # None
                 /\ RWithin(RMul(costs[p].cost_per_sqft, FloorArea(p)),
                            costs[p].total_material_cost,
                            RAdd(RMul(Dec(5, 3), FloorArea(p)), Dec(5, 3)))

\* a priced snapshot without floor area: no division, a null cost_per_sqft
C3_Witness ==
    \E p \in Plans :
        /\ Costed(p)
        /\ IsZero(FloorArea(p))
        /\ ~IsZero(costs[p].total_material_cost)
        /\ costs[p].cost_per_sqft = None

---------------------------------------------------------------------------
(* C4.  generate_plan_variants(s, 'standard') is the identity: every leaf  *)
(* of every section of the returned snapshot equals that of s.             *)

C4_StandardIsIdentity ==
    materials["standard"] # 0 => Variant("standard") = BaseSnapshot

\* a standard variant of a snapshot that re-rounding would have changed
C4_Witness ==
    /\ materials["standard"] # 0
    /\ materials["standard"] # base_materials
    /\ "sand" \in DOMAIN BaseSnapshot
    /\ "concrete_sand_m3" \in DOMAIN BaseSnapshot.sand
    /\ Round(BaseSnapshot.sand.concrete_sand_m3, 1) # BaseSnapshot.sand.concrete_sand_m3

---------------------------------------------------------------------------
(* C5.  On every adjusted field the economy variant's value is at least    *)
(* the standard variant's, which is at least the premium variant's, after  *)
(* re-rounding too.                                                        *)

Ordered(s, key) ==
    /\ RLe(Variant("standard")[s][key], Variant("economy")[s][key])
    /\ RLe(Variant("premium")[s][key], Variant("standard")[s][key])

C5_EconomyStandardPremiumOrdered ==
    (\A p \in Plans : materials[p] # 0) =>
        \A s \in DOMAIN BaseSnapshot :
            \A key \in AdjustedKeys(s, BaseSnapshot[s]) : Ordered(s, key)

---------------------------------------------------------------------------
(* C6.  generate_plan_variants never mutates its input and returns a       *)
(* snapshot that shares no section with it: whatever variants are asked    *)
(* for and whatever is later written into one of them, the base snapshot   *)
(* and every other variant stay as they are.                               *)

\* the snapshots held: the base and the variants returned so far
Roots == {base_materials} \cup {materials[p] : p \in {p \in Plans : materials[p] # 0}}

\* no dict is a snapshot or a section of two snapshots
NoSharing ==
    \A x, y \in Roots :
        x # y => ({x} \cup Targets(heap, x)) \cap ({y} \cup Targets(heap, y)) = {}

\* the step changes the variant plan p already had
Changed(p) == materials[p] # 0 /\ Variant(p)' # Variant(p)

\* a step leaves the base alone, and what it changes is one variant, by a
\* write into that variant
Frame ==
    /\ BaseSnapshot' = BaseSnapshot
    /\ \A p \in Plans :
          Changed(p) => materials' = materials /\ \A q \in Plans \ {p} : ~Changed(q)

C6_VariantsIndependent == [][Frame /\ NoSharing']_vars

\* two variants, one of them written into, the base as it was
C6_Witness ==
    \E p, q \in Plans :
        /\ p # q /\ materials[p] # 0 /\ materials[q] # 0
        /\ \E s \in DOMAIN Variant(p) : \E key \in DOMAIN Variant(p)[s] :
              /\ Variant(p)[s][key] = Edited
              /\ Variant(q)[s][key] # Edited
        /\ BaseSnapshot \in AliasSnapshots

---------------------------------------------------------------------------
(* C7.  generate_boq returns exactly 13 rows in the fixed order PCC,       *)
(* footing, column, beam and slab concrete, cement, sand, aggregate,       *)
(* steel, bricks, tiles, paint, plaster, for any snapshot and cost result, *)
(* sections missing or not; the five concrete rows have a null rate and a  *)
(* null amount.                                                            *)

BoqItems ==
    <<"PCC (Plain Cement Concrete)", "RCC Footing Concrete", "RCC Column Concrete",
      "RCC Beam Concrete", "RCC Slab Concrete", "Cement", "Sand", "Aggregate",
      "Steel Reinforcement", "Bricks", "Floor Tiles", "Paint", "Plaster">>

C7_ThirteenRowsInOrder ==
    \A p \in Plans :
        boq[p] # <<>> =>
            /\ Len(boq[p]) = 13
            /\ \A i \in 1..13 : boq[p][i].item = BoqItems[i]
            /\ \A i \in 1..5 : boq[p][i].rate = None /\ boq[p][i].amount = None

\* a BOQ of a priced snapshot without a concrete section, and a BOQ made
\* from a cost dict without entries
C7_Witness ==
    /\ \E p \in Plans :
          /\ boq[p] # <<>>
          /\ Costed(p)
          /\ "concrete" \notin DOMAIN Variant(p)
          /\ boq[p][6].rate # None
    /\ \E p \in Plans :
          /\ boq[p] # <<>>
          /\ ~Costed(p)

---------------------------------------------------------------------------
(* C8.  For a cost result of calculate_cost, each of the eight rows        *)
(* cement, sand, aggregate, steel, bricks, tiles, paint and plaster has a  *)
(* non-null rate equal to the matching entry of cost.applied_rates and a   *)
(* non-null amount equal to the matching entry of cost.itemized_costs.     *)

\* the rate key of rows 6 to 13, in row order
RowRateKeys ==
    <<"cement_per_bag", "sand_per_m3", "aggregate_per_m3", "steel_per_kg",
      "brick_per_100", "tile_per_sqm", "paint_per_liter", "plaster_per_m3">>

\* the dict the result of plan p holds as applied_rates
AppliedRates(p) == heap[costs[p].applied_rates.ref]

C8_PricedRowsCarryRateAndAmount ==
    \A p \in Plans :
        Costed(p) /\ boq[p] # <<>> =>
            \A i \in 1..8 :
                /\ boq[p][5 + i].rate # None
                /\ boq[p][5 + i].rate = AppliedRates(p)[RowRateKeys[i]]
                /\ boq[p][5 + i].amount # None
                /\ boq[p][5 + i].amount = costs[p].itemized_costs[CostOrder[i]]

\* the BOQ of an economy result: the rates on its rows are scaled ones
C8_Witness ==
    /\ Costed("economy")
    /\ boq["economy"] # <<>>
    /\ AppliedRates("economy") # default_rates
    /\ ~IsZero(boq["economy"][6].amount)

---------------------------------------------------------------------------
(* C9.  calculate_cost takes the rate table it is given (a mapping with    *)
(* the 8 rate keys) and the built-in default table when it is given none,  *)
(* then multiplies every rate by the plan's factor, 0.90 for economy,      *)
(* 1.15 for premium, 1.0 for standard, for default and supplied tables     *)
(* alike; applied_rates are exactly these rates and every itemized cost    *)
(* is the quantity times the applied rate, rounded to 2 decimals.          *)

\* a rate table was supplied
Supplied == MATERIAL_RATES # 0 /\ RateKeys \subseteq DOMAIN heap[MATERIAL_RATES]

PlanFactor ==
    [economy |-> Dec(90, 2), standard |-> Whole(1), premium |-> Dec(115, 2)]

\* rate key k of the selected table under plan p
Expected(p, k) ==
    RMul(IF Supplied THEN heap[MATERIAL_RATES][k] ELSE default_rates[k], PlanFactor[p])

---------------------------------------------------------------------------
(* C10.  When custom_rates is given to calculate_cost the custom rates     *)
(* override the default rates and the plan adjustments: for economy and    *)
(* premium as for standard, the rates applied are the custom rates as      *)
(* given.                                                                  *)

C10_CustomRatesOverridePlan ==
    \A p \in Plans :
        Costed(p) /\ Supplied => AppliedRates(p) = heap[MATERIAL_RATES]

---------------------------------------------------------------------------
(* C11.  Whenever the rate table given to calculate_cost lacks one or more *)
(* of the 8 rate keys, the table without keys included, calculate_cost     *)
(* raises and returns no result; it never prices with a default rate or    *)
(* with the default table.                                                 *)

\* calculate_cost has been called for plan p
CostCalled(p) == costs[p] # NoResult

\* a table was given and lacks a rate key
ShortTable == MATERIAL_RATES # 0 /\ ~(RateKeys \subseteq DOMAIN heap[MATERIAL_RATES])

C11_MissingRateKeyRaises ==
    \A p \in Plans : CostCalled(p) /\ ShortTable => costs[p] = Raised

---------------------------------------------------------------------------
(* C12.  In estimate() every invalid InputSet (a required field missing, a *)
(* numeric field non-numeric, non-positive or not convertible to the       *)
(* integer the calculator expects, an enum value outside its set) is       *)
(* rejected by the validation before any core computation starts:          *)
(* calculate_materials and the functions after it are never invoked for    *)
(* an invalid InputSet.                                                    *)

\* the fields an InputSet holds as numbers
NumberFields == numeric_fields \cup {"tile_size"}

ValidInputSet(inputs) ==
    /\ \A f \in RequiredFields : f \in DOMAIN inputs /\ inputs[f] # Str("")
    /\ \A f \in NumberFields : CanFloat(inputs[f]) /\ inputs[f].m > 0
    /\ \A f \in IntFields \cup OptionalIntFields : CanInt(inputs[f])
    /\ Text(inputs["structure_type"]) \in valid_structures
    /\ Text(inputs["footing_type"]) \in valid_footings
    /\ Text(inputs["concrete_grade"]) \in valid_grades
    /\ Text(inputs["mortar_mix"]) \in valid_mortars

\* estimate() has called calculate_materials: it returned or it raised
Invoked == base_materials # 0 \/ pc = "failed"

C12_InvalidNeverComputed == Invoked /\ form # NoInputs => ValidInputSet(form)

---------------------------------------------------------------------------
(* C13.  calculate_materials raises and returns no snapshot whenever an    *)
(* input field cannot be converted to its expected numeric or enum type:   *)
(* a non-numeric value in a numeric field, or a mortar_mix outside 1:6,    *)
(* 1:4, 1:3; it never replaces an unconvertible value with a default.      *)

\* a field calculate_materials reads holds a text that is not of its type
Unconvertible(inputs) ==
    \/ \E f \in (FloatFields \cup OptionalFloatFields) \cap DOMAIN inputs :
          ~CanFloat(inputs[f])
    \/ \E f \in (IntFields \cup OptionalIntFields) \cap DOMAIN inputs :
          ~CanInt(inputs[f])
    \/ "mortar_mix" \in DOMAIN inputs /\ Text(inputs["mortar_mix"]) \notin valid_mortars

C13_UnconvertibleRaises ==
    Invoked /\ form # NoInputs /\ Unconvertible(form) => pc = "failed" /\ base_materials = 0

---------------------------------------------------------------------------
(* C14.  As claimed: for the scenario of the specification                 *)
(* calculate_materials yields concrete.footing_rcc of about 14.24 m3,      *)
(* cement.total_bags > 0 and sand, aggregate and steel totals > 0;         *)
(* calculate_cost with default rates on the standard plan yields           *)
(* total_material_cost > 0 and cost_per_sqft = total_material_cost / 1200. *)

Positive(x) == ~IsZero(x)

\* the totals of the scenario's snapshot are positive
ScenarioTotals ==
    /\ Positive(BaseSnapshot.cement.total_bags)
    /\ Positive(BaseSnapshot.sand.total_sand_kg)
    /\ Positive(BaseSnapshot.aggregate.total_aggregate_kg)
    /\ Positive(BaseSnapshot.steel.total_steel_kg)

\* the standard plan is priced with the default rates
StandardAtDefault ==
    Costed("standard") /\ AppliedRates("standard") = default_rates

C14_ScenarioAsStated ==
    form = Scenario =>
        /\ Calculated =>
              /\ RWithin(BaseSnapshot.concrete.footing_rcc, Dec(1424, 2), Dec(5, 3))
              /\ ScenarioTotals
        /\ StandardAtDefault =>
              /\ Positive(costs["standard"].total_material_cost)
              /\ costs["standard"].cost_per_sqft # None
              /\ REq(costs["standard"].cost_per_sqft,
                     RDiv(costs["standard"].total_material_cost, Whole(1200)))

(* C14, amended.  The footing volume 8 x (4 x 0.3048) x (4 x 0.3048) x     *)
(* (1 x 0.3048) is 3.62 m3, and cost_per_sqft is total_material_cost /     *)
(* 1200 rounded to 2 decimals; the rest is as claimed.                     *)

C14_Scenario ==
    form = Scenario =>
        /\ Calculated =>
              /\ BaseSnapshot.concrete.footing_rcc = Dec(362, 2)
              /\ ScenarioTotals
        /\ StandardAtDefault =>
              /\ Positive(costs["standard"].total_material_cost)
              /\ costs["standard"].cost_per_sqft # None
              /\ costs["standard"].cost_per_sqft =
                     Round(RDiv(costs["standard"].total_material_cost, Whole(1200)), 2)

\* the scenario priced on the standard plan with the default rates
C14_Witness ==
    /\ form = Scenario
    /\ Calculated
    /\ StandardAtDefault
    /\ costs["standard"].total_material_cost = Whole(807986)
    /\ costs["standard"].cost_per_sqft = Dec(67332, 2)

---------------------------------------------------------------------------
(* C15.  The engine is deterministic and has no hidden state: for any      *)
(* snapshot, plan and rate table, generate_boq(materials,                  *)
(* calculate_cost(materials, plan, rates)) run twice, with any other       *)
(* engine calls in between, gives identical BOQ rows.                      *)

C15_SameRowsAgain ==
    [][\A p \in Plans : boq[p] # <<>> => boq'[p] = boq[p]]_vars

\* every plan has its BOQ and a plan was priced again after the others
C15_Witness ==
    /\ \A p \in Plans : Costed(p) /\ boq[p] # <<>>
    /\ CostCalls > 3
    /\ MATERIAL_RATES # 0
    /\ ~IsZero(boq["economy"][6].amount)

---------------------------------------------------------------------------
(* C16.  The three plan pipelines started from one shared base snapshot    *)
(* and one shared rate table are independent: under every order and        *)
(* interleaving of their steps each pipeline's materials, cost and BOQ are *)
(* what the pipeline produces when it runs alone, and the base snapshot    *)
(* and the rate table are never changed.  Step by step: what a step gives  *)
(* a plan is what the plan's pipeline gives when run alone on the base     *)
(* snapshot and the table, and the step leaves alone what the plans had.   *)

\* a heap holding nothing but the rate table and the base snapshot
AloneHeap ==
    StoreMaterials(IF MATERIAL_RATES = 0 THEN <<>> ELSE <<heap[MATERIAL_RATES]>>,
                   BaseSnapshot)

\* a cost result with the applied_rates dict in place of its address
CostValue(c) == [c.ret EXCEPT !.applied_rates = c.heap[c.ret.applied_rates.ref]]

\* what the step has put into boq[p] is the BOQ of the pipeline run alone,
\* v its variant and c its cost
BoqAsAlone(p, v, c) == boq'[p] = generate_boq(c.heap, Deref(c.heap, v.ret), c.ret)

\* what the step has put into costs[p] or boq[p] is the same
CostAsAlone(p, v, c) ==
    /\ costs'[p] # costs[p] => CostValue([heap |-> heap', ret |-> costs'[p]]) = CostValue(c)
    /\ boq'[p] # boq[p] => BoqAsAlone(p, v, c)

\* what the step has put into materials[p], costs[p] or boq[p] is the same
StepAsAlone(p, v) ==
    /\ materials'[p] # materials[p] => Variant(p)' = Deref(v.heap, v.ret)
    /\ costs'[p] # costs[p] \/ boq'[p] # boq[p] =>
          \A c \in {calculate_cost(v.heap, v.ret, p, MATERIAL_RATES)} : CostAsAlone(p, v, c)

\* the step leaves alone what plan p had before it
Kept(p) ==
    /\ materials[p] # 0 => materials'[p] = materials[p] /\ Variant(p)' = Variant(p)
    /\ Costed(p) =>
          /\ costs'[p] = costs[p]
          /\ heap'[costs[p].applied_rates.ref] = heap[costs[p].applied_rates.ref]
    /\ boq[p] # <<>> => boq'[p] = boq[p]

\* plan p gets something new by the step
Fresh(p) == materials'[p] # materials[p] \/ costs'[p] # costs[p] \/ boq'[p] # boq[p]

AsAlone ==
    \A p \in Plans :
        /\ Kept(p)
        /\ Fresh(p) =>
              \A a \in {AloneHeap} :
                  \A v \in {generate_plan_variants(a.heap, a.ret, p)} : StepAsAlone(p, v)

SharedUntouched ==
    /\ BaseSnapshot' = BaseSnapshot
    /\ MATERIAL_RATES' = MATERIAL_RATES
    /\ MATERIAL_RATES # 0 => heap'[MATERIAL_RATES] = heap[MATERIAL_RATES]

C16_PipelinesIndependent == [][AsAlone /\ SharedUntouched]_vars

\* all three pipelines have finished, started and priced in an order that
\* is not estimate's
C16_Witness ==
    /\ \A p \in Plans : Costed(p) /\ boq[p] # <<>>
    /\ materials["premium"] < materials["economy"]
    /\ costs["standard"].applied_rates.ref < costs["premium"].applied_rates.ref
    /\ Variant("economy") # Variant("premium")

---------------------------------------------------------------------------
(* C17.  The process-wide rate table is read-only for the engine:          *)
(* calculate_cost never modifies the custom_rates mapping it is given, and *)
(* the applied_rates it returns is a mapping of its own for every plan,    *)
(* standard included, so that MATERIAL_RATES stays the table loaded at     *)
(* process start whatever is priced, and priced again.                     *)

\* the step leaves the table as it is
TableKept ==
    /\ MATERIAL_RATES' = MATERIAL_RATES
    /\ MATERIAL_RATES # 0 => heap'[MATERIAL_RATES] = heap[MATERIAL_RATES]

\* no result's applied_rates is the table or another plan's applied_rates
OwnAppliedRates ==
    \A p \in Plans :
        Costed(p) =>
            /\ costs[p].applied_rates.ref # MATERIAL_RATES
            /\ \A q \in Plans \ {p} :
                  Costed(q) => costs[q].applied_rates.ref # costs[p].applied_rates.ref

C17_RateTableReadOnly == [][TableKept /\ OwnAppliedRates']_vars

\* every plan priced from the loaded table, one of them twice; the standard
\* rates equal the table's and are not the table
C17_Witness ==
    /\ MATERIAL_RATES # 0
    /\ heap[MATERIAL_RATES] = SheetRates
    /\ \A p \in Plans : Costed(p)
    /\ CostCalls > 3
    /\ AppliedRates("standard") = heap[MATERIAL_RATES]
    /\ AppliedRates("economy") # heap[MATERIAL_RATES]

---------------------------------------------------------------------------
(* C18.  As claimed: generate_plan_variants preserves total = sum of       *)
(* components.  For every base snapshot of calculate_materials and every   *)
(* plan the adjusted cement.total_bags equals the sum of the adjusted bag  *)
(* counts, and total_rcc, total_steel_kg and total_sand_kg are the sums of *)
(* their adjusted components within rounding: 0.055 m3, 0.55 kg, 0.45 kg.  *)

\* the totals other than the bags, within the rounding of an adjusted
\* snapshot: the base's own rounding scaled, and one more rounding per field
MeasuresNearSums(m) ==
    /\ RWithin(m.concrete.total_rcc, SumOfRcc(m.concrete), Dec(55, 3))
    /\ RWithin(m.steel.total_steel_kg, SumOfSteel(m.steel), Dec(55, 2))
    /\ RWithin(m.sand.total_sand_kg, SumOfSand(m.sand), Dec(45, 2))

C18_VariantTotalsAreSums ==
    \A p \in Plans :
        Calculated /\ materials[p] # 0 =>
            /\ Variant(p).cement.total_bags = SumOfBags(Variant(p).cement)
            /\ MeasuresNearSums(Variant(p))

(* C18, amended.  The bag counts are scaled and rounded one by one, so the *)
(* adjusted total_bags is within 2 bags of the sum of the adjusted bag     *)
(* counts (equal for the standard plan); the rest is as claimed.           *)

C18_VariantTotalsNearSums ==
    \A p \in Plans :
        Calculated /\ materials[p] # 0 =>
            /\ RWithin(Variant(p).cement.total_bags, SumOfBags(Variant(p).cement),
                       IF p = "standard" THEN Zero ELSE Whole(2))
            /\ MeasuresNearSums(Variant(p))

\* an adjusted snapshot whose total_bags is not the sum of its bag counts
C18_Witness ==
    \E p \in Plans :
        /\ Calculated
        /\ materials[p] # 0
        /\ Variant(p).cement.total_bags # SumOfBags(Variant(p).cement)
        /\ Variant(p).cement.total_bags # BaseSnapshot.cement.total_bags

----------------------------------------------------------------------------
(* C19: after economy or premium scaling every adjusted field carries the  *)
(* number of decimals calculate_materials gave it: 2 for the concrete      *)
(* volumes, 0 for bags, bricks and tiles, 1 for the *_kg masses and 3 for   *)
(* the *_m3 sand and aggregate volumes.                                    *)

\* lines 104-251: the decimals calculate_materials rounds the field key of
\* section s to
MaterialDecimals(s, key) ==
    CASE s = "concrete" -> 2
      [] s \in {"sand", "aggregate"} /\ key \in {"concrete_sand_m3",
             "brickwork_sand_m3", "plaster_sand_m3", "concrete_aggregate_m3"} -> 3
      [] s \in {"sand", "aggregate", "steel"} -> 1
      [] OTHER -> 0

\* the fields of section s of the base snapshot on which the variant v holds
\* the scaled value at the decimals calculate_materials used
AtOriginalPrecision(b, v, s, factor) ==
    \A key \in AdjustedKeys(s, b[s]) :
        v[s][key] = Round(RMul(b[s][key], factor), MaterialDecimals(s, key))

C19_RoundedToOriginalPrecision ==
    \A p \in {"economy", "premium"} :
        Calculated /\ materials[p] # 0 =>
            \A b \in {BaseSnapshot} : \A v \in {Variant(p)} :
                \A s \in DOMAIN b : AtOriginalPrecision(b, v, s, AdjustmentFactor(p))

---------------------------------------------------------------------------
(* C20: for every plot length and width and for both layouts, the room     *)
(* rectangles generate_floor_plan_svg emits have positive width and        *)
(* height, do not overlap one another, and lie inside the outer boundary   *)
(* rectangle (padding, padding, usable_width, usable_height), where the    *)
(* canvas is max(3*plot_length, 600) by max(3*plot_width, 500).            *)

\* generate_floor_plan_svg has returned the drawing of layout l
Drawn(l) == layout_svg[l] \notin {NoResult, Raised}

Right(r) == RAdd(r.x, r.width)

Bottom(r) == RAdd(r.y, r.height)

Overlap(a, b) ==
    /\ RLt(a.x, Right(b)) /\ RLt(b.x, Right(a))
    /\ RLt(a.y, Bottom(b)) /\ RLt(b.y, Bottom(a))

Inside(r, o) ==
    /\ RLe(o.x, r.x) /\ RLe(o.y, r.y)
    /\ RLe(Right(r), Right(o)) /\ RLe(Bottom(r), Bottom(o))

RoomsWellPlaced(svg) ==
    /\ svg.outer = Rect("Outer walls", padding, padding,
                        Usable(svg.width), Usable(svg.height))
    /\ \A i \in DOMAIN svg.rooms :
          /\ RLt(Zero, svg.rooms[i].width) /\ RLt(Zero, svg.rooms[i].height)
          /\ Inside(svg.rooms[i], svg.outer)
          /\ \A j \in DOMAIN svg.rooms : i < j => ~Overlap(svg.rooms[i], svg.rooms[j])

\* the canvas side is max(3 * plot_side, least)
SideExact(side, plot_side, least) == REq(side, CanvasSideExact(plot_side, least))

\* the canvas side is a whole number of pixels, at most max(3 * plot_side,
\* least) and less than one pixel below it
SideWhole(side, plot_side, least) ==
    /\ side.d = <<1>>
    /\ RLe(side, CanvasSideExact(plot_side, least))
    /\ RLt(CanvasSideExact(plot_side, least), RAdd(side, Whole(1)))

C20_RoomsInsideExactCanvas ==
    \A l \in LayoutTypes :
        Drawn(l) =>
            \A svg \in {layout_svg[l]} :
                /\ SideExact(svg.width, form["plot_length"], Whole(600))
                /\ SideExact(svg.height, form["plot_width"], Whole(500))
                /\ RoomsWellPlaced(svg)

\* C20 as the code has it: the canvas is max(int(3*plot_length), 600) by
\* max(int(3*plot_width), 500), and on it the rooms of both layouts have
\* positive sizes, do not overlap and lie inside the outer boundary
C20_RoomsInsideCanvas ==
    \A l \in LayoutTypes :
        Drawn(l) =>
            \A svg \in {layout_svg[l]} :
                /\ SideWhole(svg.width, form["plot_length"], Whole(600))
                /\ SideWhole(svg.height, form["plot_width"], Whole(500))
                /\ RoomsWellPlaced(svg)

\* both layouts are drawn for a plot whose canvas is above the least size
\* and cut to whole pixels in both directions
C20_Witness ==
    /\ \A l \in LayoutTypes : Drawn(l)
    /\ \A svg \in {layout_svg["layout1"]} :
          /\ RLt(Whole(600), svg.width)
          /\ RLt(Whole(500), svg.height)
          /\ ~SideExact(svg.width, form["plot_length"], Whole(600))
          /\ ~SideExact(svg.height, form["plot_width"], Whole(500))

---------------------------------------------------------------------------
(* C21: generate_plan_variants changes only the listed fields: for economy *)
(* each numeric field of concrete, cement, sand, aggregate and steel, and  *)
(* masonry.brick_quantity and finishing.floor_tiles_qty, becomes the base  *)
(* value times 1.08 re-rounded, for premium times 0.95; every other field  *)
(* is unchanged under every plan.                                          *)

\* the field key of section s with value x is one the claim lists
Listed(s, key, x) ==
    \/ s \in {"concrete", "cement", "sand", "aggregate", "steel"} /\ IsNumber(x)
    \/ s = "masonry" /\ key = "brick_quantity"
    \/ s = "finishing" /\ key = "floor_tiles_qty"

\* v is x rounded to some number of decimals up to 3: a multiple of 10^-k
\* within half of 10^-k of x
ReRounded(v, x) ==
    \E k \in 0..3 :
        /\ v.d \in {BPow10(j) : j \in 0..k}
        /\ RWithin(v, x, Dec(5, k + 1))

\* the variant v of base b for the quantity factor: the sections and fields
\* of the base, the listed ones scaled, the others as they were
OnlyListedScaled(b, v, factor, scaled) ==
    /\ DOMAIN v = DOMAIN b
    /\ \A s \in DOMAIN b :
          /\ DOMAIN v[s] = DOMAIN b[s]
          /\ \A key \in DOMAIN b[s] :
                IF ~Listed(s, key, b[s][key]) THEN v[s][key] = b[s][key]
                ELSE scaled => \E x \in {RMul(b[s][key], factor)} :
                                  ReRounded(v[s][key], x)

C21_OnlyListedFieldsScaled ==
    \A p \in Plans :
        materials[p] # 0 =>
            \A b \in {BaseSnapshot} : \A v \in {Variant(p)} :
                OnlyListedScaled(b, v,
                                 IF p = "economy" THEN Dec(108, 2) ELSE Dec(95, 2),
                                 p # "standard")

\* an economy variant of a computed snapshot: the bricks are scaled, the
\* paint is not
C21_Witness ==
    /\ Calculated /\ materials["economy"] # 0
    /\ RLt(BaseSnapshot.masonry.brick_quantity,
           Variant("economy").masonry.brick_quantity)
    /\ RLt(Zero, BaseSnapshot.finishing.paint_liters)
    /\ RLt(Zero, BaseSnapshot.masonry.mortar_volume_m3)

---------------------------------------------------------------------------
(* C22: in calculate_materials rounding is the final step on each output:  *)
(* the cement bag count for concrete and the concrete sand and aggregate   *)
(* volumes and masses are computed from the full-precision concrete        *)
(* volumes, never from already-rounded output fields.                      *)

\* the concrete volumes before any rounding, under the names line 114 reads
FullPrecision(v) ==
    [pcc_volume |-> v.pcc_vol,
     total_rcc |-> RAdd(RAdd(RAdd(v.footing_vol, v.column_vol), v.beam_vol),
                        v.slab_vol)]

\* the outputs of snapshot m derived from the concrete are the mix
\* quantities, rounded as lines 175-202 round them
DerivedFrom(m, mix) ==
    /\ m.cement.for_concrete = Round(mix.cement_bags_concrete, 0)
    /\ m.sand.concrete_sand_m3 = Round(mix.sand_vol, 3)
    /\ m.sand.concrete_sand_kg = Round(mix.sand_mass_kg, 1)
    /\ m.aggregate.concrete_aggregate_m3 = Round(mix.agg_vol, 3)
    /\ m.aggregate.concrete_aggregate_kg = Round(mix.agg_mass_kg, 1)

C22_DerivedFromFullPrecision ==
    Calculated =>
        \A mix \in {Mix(form, FullPrecision(Volumes(form)))} :
            DerivedFrom(BaseSnapshot, mix)

---------------------------------------------------------------------------
(* C23: the cement bag counts are ceilings of mass / 50 kg taken per use:  *)
(* for_concrete of (PCC + total RCC volume) x the cement content of the    *)
(* grade (320, 360, 400 kg/m3 for m20, m25, m30; m20 for a grade that is   *)
(* not recognised), for_mortarbrickwork of the mortar cement mass,         *)
(* for_plaster of the plaster cement mass; total_bags is the sum of the    *)
(* three ceilings; each count is a whole number >= mass / 50 and less than *)
(* that + 1.                                                               *)

\* n is the ceiling of x
IsCeiling(n, x) == n.d = <<1>> /\ RLe(x, n) /\ RLt(n, RAdd(x, Whole(1)))

\* the cement content the claim gives the grade text
ContentOf(grade) ==
    CASE grade = "m25" -> Whole(360)
      [] grade = "m30" -> Whole(400)
      [] OTHER -> Whole(320)

GradeOf(inputs) == Lower(Text(Get(inputs, "concrete_grade", Str("m20"))))

\* the cement mass of the concrete of snapshot m, in bags of 50 kg
ConcreteBagsExact(m, inputs) ==
    RDiv(RMul(RAdd(m.concrete.pcc_volume, m.concrete.total_rcc),
              ContentOf(GradeOf(inputs))), Whole(50))

BagsAreCeilings(m, w, inputs) ==
    /\ IsCeiling(m.cement.for_concrete, ConcreteBagsExact(m, inputs))
    /\ IsCeiling(m.cement.for_mortarbrickwork, RDiv(w.cement_for_mortar_kg, Whole(50)))
    /\ IsCeiling(m.cement.for_plaster, RDiv(w.cement_for_plaster_kg, Whole(50)))
    /\ m.cement.total_bags =
           RAdd(RAdd(m.cement.for_concrete, m.cement.for_mortarbrickwork),
                m.cement.for_plaster)

C23_BagsAreCeilingsPerUse ==
    Calculated =>
        \A m \in {BaseSnapshot} : \A w \in {Walls(form)} :
            BagsAreCeilings(m, w, form)

\* a form whose grade text names no grade, with a total that is more than
\* the ceiling of the summed masses
C23_Witness ==
    /\ Calculated
    /\ GradeOf(form) \notin {"m20", "m25", "m30"}
    /\ \A m \in {BaseSnapshot} : \A w \in {Walls(form)} :
          RLe(RAdd(RAdd(RAdd(ConcreteBagsExact(m, form),
                             RDiv(w.cement_for_mortar_kg, Whole(50))),
                        RDiv(w.cement_for_plaster_kg, Whole(50))), Whole(1)),
              m.cement.total_bags)

---------------------------------------------------------------------------
(* C24: in calculate_cost the sand cost is (concrete_sand_m3 +             *)
(* brickwork_sand_m3 + plaster_sand_m3) x sand_per_m3; only when that sum  *)
(* is zero and total_sand_kg is not is the volume total_sand_kg / 1600;    *)
(* the aggregate cost uses concrete_aggregate_m3 with the analogous        *)
(* concrete_aggregate_kg / 1500; whenever a volume is non-zero the mass    *)
(* fields have no effect on the cost.                                      *)

\* the three sand volumes of snapshot m added up
SandVolumes(m) ==
    RAdd(RAdd(Qty(m, "sand", "concrete_sand_m3"), Qty(m, "sand", "brickwork_sand_m3")),
         Qty(m, "sand", "plaster_sand_m3"))

\* the volume the claim prices: the volume, or mass / per_m3 when the volume
\* is zero and the mass is not
PricedVolume(volume, mass, per_m3) ==
    IF ~IsZero(volume) THEN volume
    ELSE IF ~IsZero(mass) THEN RDiv(mass, Whole(per_m3))
    ELSE Zero

\* the cost entries of result c for snapshot m at the rates applied
SandAndAggregateCosts(c, m, rates) ==
    /\ c.itemized_costs.sand =
           Round(RMul(PricedVolume(SandVolumes(m), Qty(m, "sand", "total_sand_kg"),
                                   1600),
                      rates["sand_per_m3"]), 2)
    /\ c.itemized_costs.aggregate =
           Round(RMul(PricedVolume(Qty(m, "aggregate", "concrete_aggregate_m3"),
                                   Qty(m, "aggregate", "concrete_aggregate_kg"),
                                   1500),
                      rates["aggregate_per_m3"]), 2)

C24_VolumesPricedMassAsFallback ==
    \A p \in Plans :
        Costed(p) =>
            \A m \in {Variant(p)} : SandAndAggregateCosts(costs[p], m, AppliedRates(p))

\* a costed snapshot without sand volumes whose sand mass is priced
C24_Witness ==
    \E p \in Plans :
        /\ Costed(p)
        /\ IsZero(SandVolumes(Variant(p)))
        /\ ~IsZero(Qty(Variant(p), "sand", "total_sand_kg"))
        /\ RLt(Zero, costs[p].itemized_costs.sand)

---------------------------------------------------------------------------
(* C25: for any base snapshot with non-negative quantities and any rate    *)
(* table with non-negative rates the three plans are ordered by price:     *)
(* the total_material_cost of the economy pipeline <= that of the standard *)
(* pipeline <= that of the premium pipeline.                               *)

\* the three plans are priced
AllCosted == \A p \in Plans : Costed(p)

C25_PlansOrderedByPrice ==
    AllCosted =>
        /\ RLe(costs["economy"].total_material_cost,
               costs["standard"].total_material_cost)
        /\ RLe(costs["standard"].total_material_cost,
               costs["premium"].total_material_cost)

---------------------------------------------------------------------------
(* C26: load_material_costs returns a rate table with exactly the 8        *)
(* required keys on every path (openpyxl missing, file missing, load       *)
(* error, a parse with any subset of recognised rows): it starts from the  *)
(* defaults and overlays parsed rows only, so calculate_cost called with   *)
(* MATERIAL_RATES never finds a rate key missing.                          *)

\* the table app.py holds as MATERIAL_RATES
LoadedRates == heap[MATERIAL_RATES]

C26_LoadedTableComplete ==
    /\ DOMAIN LoadedRates = RateKeys
    /\ \A k \in RateKeys : IsNumber(LoadedRates[k])
    /\ \A p \in Plans : costs[p] # Raised

\* a plan is priced with a table in which a parsed row replaced a default
\* and another default stayed
C26_Witness ==
    /\ \E p \in Plans : Costed(p)
    /\ LoadedRates["cement_per_bag"] # loader_default_rates["cement_per_bag"]
    /\ LoadedRates["brick_per_100"] = loader_default_rates["brick_per_100"]

---------------------------------------------------------------------------
(* C27: get_rates_by_plan(base, plan) and the plan scaling inside          *)
(* calculate_cost are equivalent: for every non-empty rate table base and  *)
(* every plan value (economy, premium, standard or any other string),      *)
(* get_rates_by_plan returns the same mapping as the applied_rates of      *)
(* calculate_cost(m, plan, base), and neither modifies base.               *)

\* both calls were made with plan value p
BothScaled(p) == adjusted[p] # 0 /\ costs[p] # NoResult

\* calculate_cost returned applied_rates, the mapping get_rates_by_plan
\* returned
SameRates(p) == Costed(p) /\ heap[adjusted[p]] = AppliedRates(p)

\* as stated, for every non-empty table
C27_ScalingsEquivalent ==
    [][/\ TableKept
       /\ \A p \in PlanValueSet : BothScaled(p)' => SameRates(p)']_vars

\* amended: for every table that has the 8 required keys calculate_cost
\* returns applied_rates and they are the mapping get_rates_by_plan returns;
\* neither call modifies the table, complete or not
C27_ScalingsEquivalentWhenComplete ==
    [][/\ TableKept
       /\ \A p \in PlanValueSet :
             /\ RateKeys \subseteq DOMAIN LoadedRates /\ BothScaled(p)'
                   => SameRates(p)'
             /\ Costed(p)' /\ adjusted'[p] # 0 => SameRates(p)']_vars

\* a table the loader parsed, scaled both ways under every plan value: the
\* economy rates differ from the table, the rates of a plan value that is
\* no plan's name equal it
C27_Witness ==
    /\ LoadedRates \notin {default_rates, SheetRates}
    /\ \A p \in PlanValueSet : BothScaled(p) /\ Costed(p)
    /\ heap[adjusted["economy"]] # LoadedRates
    /\ heap[adjusted["premium"]] # LoadedRates
    /\ heap[adjusted["deluxe"]] = LoadedRates
    /\ adjusted["deluxe"] # MATERIAL_RATES

---------------------------------------------------------------------------
(* C28: every estimate request ends in exactly one of three outcomes: a    *)
(* 400 validation error with no core computation performed, a 500 error,   *)
(* or a results page; a results page is produced only after                *)
(* calculate_materials, all three plan pipelines (variant, cost, BOQ) and  *)
(* both layout renderings have completed, and an exception raised in any   *)
(* stage yields the 500 outcome with no partial results rendered.          *)

\* estimate() has returned a page
Ended == pc \in {"rejected", "failed", "rendered"}

\* no function of the engine has been called
NothingComputed ==
    /\ base_materials = 0
    /\ \A p \in Plans : materials[p] = 0 /\ costs[p] = NoResult /\ boq[p] = <<>>
    /\ \A l \in LayoutTypes : layout_svg[l] = NoResult
    /\ Len(heap) = IF MATERIAL_RATES = 0 THEN 0 ELSE 1

\* every stage has returned a result
AllCompleted ==
    /\ base_materials # 0
    /\ \A p \in Plans : materials[p] # 0 /\ Costed(p) /\ boq[p] # <<>>
    /\ \A l \in LayoutTypes : Drawn(l)

\* a stage has raised
StageRaised ==
    \/ \E p \in Plans : costs[p] = Raised
    \/ \E l \in LayoutTypes : layout_svg[l] = Raised

\* the 400 page answers an invalid form before anything is computed, the
\* results page comes after every stage, a stage that raised leaves the
\* 500 page
OutcomeFits ==
    /\ pc = "rejected" => ~Validates(form) /\ NothingComputed
    /\ pc = "rendered" => Validates(form) /\ AllCompleted
    /\ pc = "failed" => Validates(form)
    /\ StageRaised => pc = "failed"

\* calculate_materials raising leaves the 500 page
RaiseFails ==
    Running /\ base_materials = 0 /\ calculate_materials(form) = Raised
        => pc' = "failed"

C28_RequestEndsInOneOutcome ==
    /\ []OutcomeFits
    /\ [][~Ended /\ RaiseFails]_vars
    /\ <>Ended

\* the results page of a request
C28_Witness == pc = "rendered" /\ AllCompleted

=============================================================================
